---- MODULE Spec2Model ----
(***************************************************************************)
(* Cash-flow projection engine of the study cost calculator                *)
(* (src/calculator.py) over the cost catalogue (src/city_database.py).     *)
(*                                                                         *)
(* Units.  Python floats holding decimal amounts are modelled as exact     *)
(* integers: money in mills (1/1000 of the currency unit), weekly hours in *)
(* hundredths of an hour, the hourly wage in cents.  round(x, 2) is the    *)
(* operator Round2 (half to even, as float.__round__ rounds the exact      *)
(* value).  An amount that lies exactly half-way between two cents is      *)
(* rounded by Python on the binary error of its double, which the decimal  *)
(* value does not determine; the scenarios below are chosen so that no     *)
(* rounded quantity is such a half-way value, and on them the ledgers of   *)
(* the model are those the source computes.                                *)
(*                                                                         *)
(* Names.  The source's string literals are written in ASCII:              *)
(*   "Portugal" = 葡萄牙, "UK" = 英国, "Lisbon" = 里斯本, "Porto" = 波尔图,     *)
(*   "London" = 伦敦, "single" = 单间, "shared" = 合租, "dorm" = 宿舍,        *)
(*   "lumpSum" = 一次性, "installment" = 分期, "Sep".."Aug" = 9月..8月.       *)
(***************************************************************************)
EXTENDS Integers, Sequences, FiniteSets, TLC

VARIABLES
    GLOBAL_CITY_DATABASE,  \* city_database.py: the module-level catalogue
    pc,                    \* position of the one caller in buildProjection
    args,                  \* the arguments passed to StudyCostCalculator(...)
    self,                  \* the calculator's attributes set so far
    frame,                 \* locals of calculate_cashflow
    df,                    \* the DataFrame calculate_cashflow returned
    found,                 \* the pair find_critical_months returned
    result,                \* what get_summary returned to the caller
    exc,                   \* the exception that reached the caller
    kept,                  \* an earlier projection the caller has kept a copy of
    topped,                \* the shortfall the caller is topping the deposit up for
    calls,                 \* the invocations of several concurrent callers
    locals,                \* the locals of calculate_cashflow of those invocations
    answer,                \* what a catalogue accessor returned to the caller
    users,                 \* database.py: the rows of the table users
    usage_stats,           \* database.py: calculation_count by user and month
    now,                   \* datetime.now()
    requests               \* the requests in progress in the metering layer

\* the state of the metering layer (subscription.py, database.py)
metering == <<users, usage_stats, now, requests>>

vars == <<GLOBAL_CITY_DATABASE, pc, args, self, frame, df, found, result, exc,
          kept, topped, calls, locals, answer, metering>>

None == [none |-> TRUE]

----------------------------------------------------------------------------
(* Bounds of the model *)

\* the deposits tried include 0, 2, .. 2 * MaxSubCent mills (sub-cent amounts)
MaxSubCent == 3

\* the top-ups tried fall short of need_support by 0 .. MaxCentsShort cents
MaxCentsShort == 2

\* the number of invocations that run concurrently
MaxCalls == 2

Calls == 1 .. MaxCalls

\* the clock runs from 0 to MaxTime days
MaxTime == 3

\* the days of a calendar month
DaysPerMonth == 2

\* subscriptions are bought for 1 .. MaxDays days
MaxDays == 2

\* calculations are saved while the month's count is below MaxCount
MaxCount == 4

\* the number of requests the metering layer serves at a time
MaxRequests == 2

Requests == 1 .. MaxRequests

----------------------------------------------------------------------------
(* Program constants *)

\* WEEKS_PER_MONTH = 4.33, in hundredths
WEEKS_PER_MONTH == 433

TUITION_PAYMENT_MONTHS == 10

\* the labels in calendar order, January first
month_names_calendar == <<"Jan", "Feb", "Mar", "Apr", "May", "Jun",
                          "Jul", "Aug", "Sep", "Oct", "Nov", "Dec">>

month_names == <<"Sep", "Oct", "Nov", "Dec", "Jan", "Feb",
                 "Mar", "Apr", "May", "Jun", "Jul", "Aug">>

RentTypes == {"single", "shared", "dorm"}

PaymentModes == {"lumpSum", "installment"}

----------------------------------------------------------------------------
(* Cost catalogue *)

CostData(single, shared, dorm, living, cur, src) ==
    [rent_single |-> single, rent_shared |-> shared, rent_dorm |-> dorm,
     living_cost |-> living, currency |-> cur, sources |-> src]

\* the part of the catalogue the model carries, in currency units as written
InitialDatabase ==
    [Portugal |->
        [Lisbon |-> CostData(400, 250, 300, 350, "EUR",
                       <<"Numbeo 2024 - Lisbon", "INE 2024", "Expatistan - Lisbon">>),
         Porto  |-> CostData(350, 220, 280, 320, "EUR",
                       <<"Numbeo 2024 - Porto", "INE 2024">>)],
     UK |->
        [London |-> CostData(1200, 800, 900, 1000, "GBP",
                       <<"Numbeo 2024 - London", "ONS 2024",
                         "Expatistan - London", "Rightmove 2024">>)]]

\* sorted() compares the source's strings by code point:
\* 英国 < 葡萄牙 and 伦敦 < 波尔图 < 里斯本
NameRank == [UK |-> 1, Portugal |-> 2, London |-> 1, Porto |-> 2, Lisbon |-> 3]

\* the names in descending order (sorted with reverse=True)
RECURSIVE sorted_descending(_)
sorted_descending(S) ==
    IF S = {} THEN <<>>
    ELSE LET m == CHOOSE x \in S : \A y \in S : NameRank[x] >= NameRank[y]
         IN  <<m>> \o sorted_descending(S \ {m})

RECURSIVE sorted(_)
sorted(S) ==
    IF S = {} THEN <<>>
    ELSE LET m == CHOOSE x \in S : \A y \in S : NameRank[x] <= NameRank[y]
         IN  <<m>> \o sorted(S \ {m})

Range(s) == {s[k] : k \in DOMAIN s}

get_countries == sorted(DOMAIN GLOBAL_CITY_DATABASE)

\* the cities of every country, whatever country is asked for
get_cities_any_country(country) ==
    sorted(UNION {DOMAIN GLOBAL_CITY_DATABASE[c] : c \in DOMAIN GLOBAL_CITY_DATABASE})

get_cities(country) ==
    IF country \notin DOMAIN GLOBAL_CITY_DATABASE THEN <<>>
    ELSE sorted(DOMAIN GLOBAL_CITY_DATABASE[country])

\* the lookup of the city under whichever country has it
get_city_data_any_country(country, city) ==
    IF \E c \in DOMAIN GLOBAL_CITY_DATABASE : city \in DOMAIN GLOBAL_CITY_DATABASE[c]
    THEN LET c == CHOOSE c \in DOMAIN GLOBAL_CITY_DATABASE : city \in DOMAIN GLOBAL_CITY_DATABASE[c]
         IN  GLOBAL_CITY_DATABASE[c][city]
    ELSE None

get_city_data(country, city) ==
    IF country \notin DOMAIN GLOBAL_CITY_DATABASE THEN None
    ELSE IF city \notin DOMAIN GLOBAL_CITY_DATABASE[country] THEN None
    ELSE GLOBAL_CITY_DATABASE[country][city]

\* the mapping with the single and the shared room swapped
get_rent_by_type_swapped(country, city, rent_type) ==
    LET data == get_city_data(country, city) IN
    IF data = None THEN None
    ELSE IF rent_type = "single" THEN [rent |-> data.rent_shared]
    ELSE IF rent_type = "shared" THEN [rent |-> data.rent_single]
    ELSE IF rent_type = "dorm" THEN [rent |-> data.rent_dorm]
    ELSE None

\* rent_mapping.get(rent_type): None for a type that is not a key
get_rent_by_type(country, city, rent_type) ==
    LET data == get_city_data(country, city) IN
    IF data = None THEN None
    ELSE IF rent_type = "single" THEN [rent |-> data.rent_single]
    ELSE IF rent_type = "shared" THEN [rent |-> data.rent_shared]
    ELSE IF rent_type = "dorm" THEN [rent |-> data.rent_dorm]
    ELSE None

get_currency_symbol(currency_code) ==
    IF currency_code = "EUR" THEN "euro sign"
    ELSE IF currency_code = "GBP" THEN "pound sign"
    ELSE currency_code

----------------------------------------------------------------------------
(* Arithmetic *)

\* a catalogue amount (whole currency units) in mills
Mills(x) == x * 1000

\* the cent below-or-at n/d mills, as a count of cents (d > 0)
FloorCents(n, d) == n \div (10 * d)

\* round(n/d mills, 2), in mills
Round2(n, d) ==
    LET lo == FloorCents(n, d)
        r2 == 2 * (n - lo * 10 * d)
        up == IF r2 < 10 * d THEN FALSE
              ELSE IF r2 > 10 * d THEN TRUE
              ELSE lo % 2 # 0
    IN  10 * (IF up THEN lo + 1 ELSE lo)

abs(x) == IF x < 0 THEN -x ELSE x

----------------------------------------------------------------------------
(* Scenarios the caller may submit *)

Scenario(c, ct, rt, job, wh, hw, dep, tui, pay) ==
    [country |-> c, city |-> ct, rent_type |-> rt, has_job |-> job,
     weekly_hours |-> wh, hourly_wage |-> hw, initial_deposit |-> dep,
     tuition_total |-> tui, tuition_payment |-> pay]

\* every field at, and one representable step beyond, each validation boundary
BoundaryScenarios ==
    {Scenario(c, ct, rt, job, wh, hw, dep, tui, pay) :
        c \in {"Portugal", "UK", "Atlantis"},
        ct \in {"Lisbon", "London", "Gotham"},
        rt \in RentTypes \cup {"villa"},
        job \in BOOLEAN,
        wh \in {-1, 0, 4000, 4001},
        hw \in {-1, 0},
        dep \in {-1, 0},
        tui \in {-1, 0},
        pay \in PaymentModes \cup {"monthly"}}

Deposits == {2 * k : k \in 0 .. MaxSubCent} \cup {500000, 600000, 2000000, 5000000, 7200000}

Tuitions == {0, 4, 48, 90, 1234540, 5000000, 6000000, 7000000}

\* Lisbon, shared room, 15 h a week at 8.00 when working
LedgerScenarios ==
    {Scenario("Portugal", "Lisbon", "shared", job, 1500, 800, dep, tui, pay) :
        job \in BOOLEAN, dep \in Deposits, tui \in Tuitions, pay \in PaymentModes}

\* test_example_3: Lisbon, single room, 10 h a week, 2000 deposit, 7000 in instalments
ExampleScenarios ==
    {Scenario("Portugal", "Lisbon", "single", TRUE, 1000, 800, 2000000, 7000000, "installment"),
     Scenario("Portugal", "Porto", "dorm", FALSE, 0, 800, 10000000, 6000000, "lumpSum")}

\* Lisbon, shared room, 20 h a week at 10.00: the income exceeds the expenses
\* once the ten instalments are paid, so the balance falls and then recovers
RecoveringScenarios ==
    {Scenario("Portugal", "Lisbon", "shared", TRUE, 2000, 1000, dep, 5000000, "installment") :
        dep \in {1000000, 2340000}}

Scenarios ==
    BoundaryScenarios \cup LedgerScenarios \cup ExampleScenarios \cup RecoveringScenarios

----------------------------------------------------------------------------
(* StudyCostCalculator.__init__ *)

InvalidInputError(rule, field, choices) ==
    [type |-> "InvalidInputError", rule |-> rule, field |-> field, choices |-> choices]

CalculationError(where, cause) ==
    [type |-> "CalculationError", where |-> where, cause |-> cause]

\* an exception of a library call made inside the method where
Exception(where) == [type |-> "Exception", where |-> where]

\* class InvalidInputError(CalculationError), class CalculationError(Exception)
isinstance(e, cls) ==
    \/ e.type = cls
    \/ cls = "CalculationError" /\ e.type = "InvalidInputError"
    \/ cls = "Exception"

\* _validate_inputs with the upper bound on the hours tested by >=
validate_inputs_ge40(country, city, rent_type, weekly_hours, hourly_wage, initial_deposit, tuition_total, tuition_payment) ==
    IF country \notin Range(get_countries)
        THEN InvalidInputError("country", "country", get_countries)
    ELSE IF city \notin Range(get_cities(country))
        THEN InvalidInputError("city", "city", get_cities(country))
    ELSE IF rent_type \notin {"single", "shared", "dorm"}
        THEN InvalidInputError("rent_type", "rent_type", <<"single", "shared", "dorm">>)
    ELSE IF initial_deposit < 0
        THEN InvalidInputError("initial_deposit < 0", "initial_deposit", <<>>)
    ELSE IF tuition_total < 0
        THEN InvalidInputError("tuition_total < 0", "tuition_total", <<>>)
    ELSE IF weekly_hours < 0
        THEN InvalidInputError("weekly_hours < 0", "weekly_hours", <<>>)
    ELSE IF weekly_hours >= 40 * 100
        THEN InvalidInputError("weekly_hours > 40", "weekly_hours", <<>>)
    ELSE IF hourly_wage < 0
        THEN InvalidInputError("hourly_wage < 0", "hourly_wage", <<>>)
    ELSE IF tuition_payment \notin {"lumpSum", "installment"}
        THEN InvalidInputError("tuition_payment", "tuition_payment", <<"lumpSum", "installment">>)
    ELSE None

\* _validate_inputs with the payment mode tested ahead of the numbers
validate_inputs_payment_first(country, city, rent_type, weekly_hours, hourly_wage, initial_deposit, tuition_total, tuition_payment) ==
    IF country \notin Range(get_countries)
        THEN InvalidInputError("country", "country", get_countries)
    ELSE IF city \notin Range(get_cities(country))
        THEN InvalidInputError("city", "city", get_cities(country))
    ELSE IF rent_type \notin {"single", "shared", "dorm"}
        THEN InvalidInputError("rent_type", "rent_type", <<"single", "shared", "dorm">>)
    ELSE IF tuition_payment \notin {"lumpSum", "installment"}
        THEN InvalidInputError("tuition_payment", "tuition_payment", <<"lumpSum", "installment">>)
    ELSE IF initial_deposit < 0
        THEN InvalidInputError("initial_deposit < 0", "initial_deposit", <<>>)
    ELSE IF tuition_total < 0
        THEN InvalidInputError("tuition_total < 0", "tuition_total", <<>>)
    ELSE IF weekly_hours < 0
        THEN InvalidInputError("weekly_hours < 0", "weekly_hours", <<>>)
    ELSE IF weekly_hours > 40 * 100
        THEN InvalidInputError("weekly_hours > 40", "weekly_hours", <<>>)
    ELSE IF hourly_wage < 0
        THEN InvalidInputError("hourly_wage < 0", "hourly_wage", <<>>)
    ELSE None

\* the exception _validate_inputs raises, or None when it returns
validate_inputs(country, city, rent_type, weekly_hours, hourly_wage, initial_deposit, tuition_total, tuition_payment) ==
    LET available_countries == get_countries
        available_cities == get_cities(country)
    IN
    IF country \notin Range(available_countries)
        THEN InvalidInputError("country", "country", available_countries)
    ELSE IF city \notin Range(available_cities)
        THEN InvalidInputError("city", "city", available_cities)
    ELSE IF rent_type \notin {"single", "shared", "dorm"}
        THEN InvalidInputError("rent_type", "rent_type", <<"single", "shared", "dorm">>)
    ELSE IF initial_deposit < 0
        THEN InvalidInputError("initial_deposit < 0", "initial_deposit", <<>>)
    ELSE IF tuition_total < 0
        THEN InvalidInputError("tuition_total < 0", "tuition_total", <<>>)
    ELSE IF weekly_hours < 0
        THEN InvalidInputError("weekly_hours < 0", "weekly_hours", <<>>)
    ELSE IF weekly_hours > 40 * 100
        THEN InvalidInputError("weekly_hours > 40", "weekly_hours", <<>>)
    ELSE IF hourly_wage < 0
        THEN InvalidInputError("hourly_wage < 0", "hourly_wage", <<>>)
    ELSE IF tuition_payment \notin {"lumpSum", "installment"}
        THEN InvalidInputError("tuition_payment", "tuition_payment", <<"lumpSum", "installment">>)
    ELSE None

\* the monthly income with four weeks to the month
calculate_monthly_income_4weeks(s) ==
    IF ~s.has_job THEN 0
    ELSE Round2(s.weekly_hours * 400 * s.hourly_wage, 1000)

\* the monthly income computed from the hours and the wage whether or not
\* there is a job, on the arguments as supplied
calculate_monthly_income_no_job_test(s) ==
    Round2(args.weekly_hours * WEEKS_PER_MONTH * s.hourly_wage, 1000)

\* monthly_hours * hourly_wage: hundredths of an hour * 4.33 * cents
calculate_monthly_income(s) ==
    IF ~s.has_job THEN 0
    ELSE Round2(s.weekly_hours * WEEKS_PER_MONTH * s.hourly_wage, 1000)

\* the monthly share with the tuition spread over the twelve rows
calculate_tuition_monthly_12(s) ==
    IF s.tuition_payment = "lumpSum" THEN 0
    ELSE IF s.tuition_payment = "installment"
        THEN Round2(s.tuition_total, 12)
    ELSE 0

calculate_tuition_monthly(s) ==
    IF s.tuition_payment = "lumpSum" THEN 0
    ELSE IF s.tuition_payment = "installment"
        THEN Round2(s.tuition_total, TUITION_PAYMENT_MONTHS)
    ELSE 0

\* an invocation that has not started
IdleCall ==
    [pc |-> "idle", args |-> None, self |-> None, df |-> None, found |-> None,
     result |-> None, exc |-> None]

FREE == "free"

PRO_MONTHLY == "pro_monthly"

PRO_YEARLY == "pro_yearly"

\* the ids of the rows of users: one registered account
RegisteredIds == {1}

\* a row of users as create_user leaves it: subscription_type DEFAULT 'free',
\* subscription_expires_at NULL
InitialUsers ==
    [id \in RegisteredIds |-> [subscription_type |-> FREE, subscription_expires_at |-> None]]

\* a request that has called nothing yet
IdleRequest == [pc |-> "idle", user_id |-> None, value |-> None]

Init ==
    /\ GLOBAL_CITY_DATABASE = InitialDatabase
    /\ pc = "idle"
    /\ args = None
    /\ self = None
    /\ frame = None
    /\ df = None
    /\ found = None
    /\ result = None
    /\ exc = None
    /\ kept = None
    /\ topped = None
    /\ calls = [p \in Calls |-> IdleCall]
    /\ locals = [p \in Calls |-> None]
    /\ answer = None
    /\ users = InitialUsers
    /\ usage_stats = <<>>
    /\ now = 0
    /\ requests = [p \in Requests |-> IdleRequest]

\* __init__ with the attribute assignments ahead of the call of _validate_inputs
InitValidate_assign_first(a) ==
    /\ pc = "idle"
    /\ args' = a
    /\ self' = [country |-> a.country, city |-> a.city, rent_type |-> a.rent_type]
    /\ LET e == validate_inputs(a.country, a.city, a.rent_type, a.weekly_hours,
                                a.hourly_wage, a.initial_deposit, a.tuition_total,
                                a.tuition_payment)
       IN IF e # None
          THEN /\ exc' = e
               /\ pc' = "raised"
          ELSE /\ exc' = exc
               /\ pc' = "init_assign"
    /\ UNCHANGED <<GLOBAL_CITY_DATABASE, frame, df, found, result>>

\* __init__ validating the hours as they are stored, 0 without a job
InitValidate_stored_hours(a) ==
    /\ pc = "idle"
    /\ args' = a
    /\ LET e == validate_inputs(a.country, a.city, a.rent_type,
                                IF a.has_job THEN a.weekly_hours ELSE 0,
                                a.hourly_wage, a.initial_deposit, a.tuition_total,
                                a.tuition_payment)
       IN IF e # None
          THEN /\ exc' = e
               /\ pc' = "raised"
          ELSE /\ exc' = exc
               /\ pc' = "init_assign"
    /\ UNCHANGED <<GLOBAL_CITY_DATABASE, self, frame, df, found, result>>

\* the caller builds a calculator: __init__ runs _validate_inputs first
InitValidate(a) ==
    /\ pc = "idle"
    /\ args' = a
    /\ LET e == validate_inputs(a.country, a.city, a.rent_type, a.weekly_hours,
                                a.hourly_wage, a.initial_deposit, a.tuition_total,
                                a.tuition_payment)
       IN IF e # None
          THEN /\ exc' = e
               /\ pc' = "raised"
          ELSE /\ exc' = exc
               /\ pc' = "init_assign"
    /\ UNCHANGED <<GLOBAL_CITY_DATABASE, self, frame, df, found, result>>

\* the attribute assignments of __init__ and its two catalogue lookups on
\* the arguments a: the attributes set, or the exception a failed lookup raises
init_attributes(a) ==
    LET city_data == get_city_data(a.country, a.city)
        rent == get_rent_by_type(a.country, a.city, a.rent_type)
    IN IF city_data = None
       THEN [exc |-> InvalidInputError("city_data", "city", <<>>), self |-> None]
       ELSE IF rent = None
       THEN [exc |-> InvalidInputError("rent", "rent_type", <<>>), self |-> None]
       ELSE [exc |-> None,
             self |-> [country |-> a.country,
                       city |-> a.city,
                       rent_type |-> a.rent_type,
                       has_job |-> a.has_job,
                       weekly_hours |-> IF a.has_job THEN a.weekly_hours ELSE 0,
                       hourly_wage |-> a.hourly_wage,
                       initial_deposit |-> a.initial_deposit,
                       tuition_total |-> a.tuition_total,
                       tuition_payment |-> a.tuition_payment,
                       currency |-> city_data.currency,
                       currency_symbol |-> get_currency_symbol(city_data.currency),
                       data_sources |-> city_data.sources,
                       monthly_rent |-> Mills(rent.rent),
                       monthly_living_cost |-> Mills(city_data.living_cost)]]

\* __init__ adding a note to city_data.sources, the list of the catalogue entry
InitAssign_writes_sources ==
    /\ pc = "init_assign"
    /\ LET r == init_attributes(args)
       IN IF r.exc # None
          THEN /\ exc' = r.exc
               /\ pc' = "raised"
               /\ self' = self
          ELSE /\ self' = r.self
               /\ pc' = "init_derive"
               /\ exc' = exc
    /\ GLOBAL_CITY_DATABASE' =
          [GLOBAL_CITY_DATABASE EXCEPT ![args.country][args.city].sources = Append(@, "scenario")]
    /\ UNCHANGED <<args, frame, df, found, result>>
    /\ UNCHANGED <<kept, topped, calls, locals, answer, metering>>

\* the attribute assignments and the two catalogue lookups
InitAssign ==
    /\ pc = "init_assign"
    /\ LET r == init_attributes(args)
       IN IF r.exc # None
          THEN /\ exc' = r.exc
               /\ pc' = "raised"
               /\ self' = self
          ELSE /\ self' = r.self
               /\ pc' = "init_derive"
               /\ exc' = exc
    /\ UNCHANGED <<GLOBAL_CITY_DATABASE, args, frame, df, found, result>>
    /\ UNCHANGED <<kept, topped, calls, locals, answer, metering>>

\* the attributes s with monthly_income and tuition_monthly added
init_derived(s) ==
    [k \in DOMAIN s \cup {"monthly_income", "tuition_monthly"} |->
        IF k = "monthly_income" THEN calculate_monthly_income(s)
        ELSE IF k = "tuition_monthly" THEN calculate_tuition_monthly(s)
        ELSE s[k]]

\* the two derived attributes; the constructor returns
InitDerive ==
    /\ pc = "init_derive"
    /\ self' = init_derived(self)
    /\ pc' = "constructed"
    /\ UNCHANGED <<GLOBAL_CITY_DATABASE, args, frame, df, found, result, exc>>
    /\ UNCHANGED <<kept, topped, calls, locals, answer, metering>>

----------------------------------------------------------------------------
(* calculate_cashflow *)

\* the expense with the instalment test off by one (i <= 10)
month_expense_11(s, i) ==
    LET expense == s.monthly_rent + s.monthly_living_cost IN
    IF s.tuition_payment = "lumpSum" /\ i = 0
        THEN expense + s.tuition_total
    ELSE IF s.tuition_payment = "installment" /\ i <= TUITION_PAYMENT_MONTHS
        THEN expense + s.tuition_monthly
    ELSE expense

\* the expense with the lump sum charged in every month
month_expense_every(s, i) ==
    LET expense == s.monthly_rent + s.monthly_living_cost IN
    IF s.tuition_payment = "lumpSum"
        THEN expense + s.tuition_total
    ELSE IF s.tuition_payment = "installment" /\ i < TUITION_PAYMENT_MONTHS
        THEN expense + s.tuition_monthly
    ELSE expense

\* the lump sum charged in the first two months
month_expense_lump_sum_twice(s, i) ==
    LET expense == s.monthly_rent + s.monthly_living_cost IN
    IF s.tuition_payment = "lumpSum" /\ i <= 1
        THEN expense + s.tuition_total
    ELSE IF s.tuition_payment = "installment" /\ i < TUITION_PAYMENT_MONTHS
        THEN expense + s.tuition_monthly
    ELSE expense

\* the expense of month i (0-based) before it is rounded for the row
month_expense(s, i) ==
    LET expense == s.monthly_rent + s.monthly_living_cost IN
    IF s.tuition_payment = "lumpSum" /\ i = 0
        THEN expense + s.tuition_total
    ELSE IF s.tuition_payment = "installment" /\ i < TUITION_PAYMENT_MONTHS
        THEN expense + s.tuition_monthly
    ELSE expense

\* the balance update with the income left out
running_balance_no_income(cumulative_balance, income, expense) ==
    cumulative_balance - expense

\* cumulative_balance = cumulative_balance + income - expense
running_balance(cumulative_balance, income, expense) ==
    cumulative_balance + income - expense

\* the four empty lists and the running balance calculate_cashflow starts with
cashflow_locals(s) ==
    [months |-> <<>>, incomes |-> <<>>, expenses |-> <<>>,
     balances |-> <<>>, cumulative_balance |-> s.initial_deposit]

\* the body of the loop over month_names applied to the locals f
cashflow_iteration(f, s) ==
    LET i == Len(f.months)
        income == s.monthly_income
        expense == month_expense(s, i)
        cumulative_balance == running_balance(f.cumulative_balance, income, expense)
    IN  [months |-> Append(f.months, month_names[i + 1]),
         incomes |-> Append(f.incomes, Round2(income, 1)),
         expenses |-> Append(f.expenses, Round2(expense, 1)),
         balances |-> Append(f.balances, Round2(cumulative_balance, 1)),
         cumulative_balance |-> cumulative_balance]

\* calculate_cashflow with the running balance started at 0
CashflowEnter_from_zero ==
    /\ pc = "constructed"
    /\ frame' = [months |-> <<>>, incomes |-> <<>>, expenses |-> <<>>,
                 balances |-> <<>>, cumulative_balance |-> 0]
    /\ pc' = "cashflow"
    /\ UNCHANGED <<GLOBAL_CITY_DATABASE, args, self, df, found, result, exc>>
    /\ UNCHANGED <<kept, topped, calls, locals, answer, metering>>

\* get_summary is entered and calls calculate_cashflow, which sets up its locals
CashflowEnter ==
    /\ pc = "constructed"
    /\ frame' = cashflow_locals(self)
    /\ pc' = "cashflow"
    /\ UNCHANGED <<GLOBAL_CITY_DATABASE, args, self, df, found, result, exc>>
    /\ UNCHANGED <<kept, topped, calls, locals, answer, metering>>

\* one iteration of the loop over month_names
CashflowStep ==
    /\ pc = "cashflow"
    /\ Len(frame.months) < Len(month_names)
    /\ frame' = cashflow_iteration(frame, self)
    /\ UNCHANGED <<GLOBAL_CITY_DATABASE, pc, args, self, df, found, result, exc>>
    /\ UNCHANGED <<kept, topped, calls, locals, answer, metering>>

\* the DataFrame built from the four lists once the loop has ended
DataFrame(f, s) ==
    [month |-> f.months, income |-> f.incomes, expense |-> f.expenses,
     balance |-> f.balances, currency_col |-> s.currency_symbol]

\* calculate_cashflow keeping its running balance on the calculator
CashflowReturn_balance_on_self ==
    /\ pc = "cashflow"
    /\ Len(frame.months) = Len(month_names)
    /\ df' = DataFrame(frame, self)
    /\ self' = [self EXCEPT !.initial_deposit = frame.cumulative_balance]
    /\ frame' = None
    /\ pc' = "critical"
    /\ UNCHANGED <<GLOBAL_CITY_DATABASE, args, found, result, exc>>
    /\ UNCHANGED <<kept, topped, calls, locals, answer, metering>>

CashflowReturn ==
    /\ pc = "cashflow"
    /\ Len(frame.months) = Len(month_names)
    /\ df' = DataFrame(frame, self)
    /\ frame' = None
    /\ pc' = "critical"
    /\ UNCHANGED <<GLOBAL_CITY_DATABASE, args, self, found, result, exc>>
    /\ UNCHANGED <<kept, topped, calls, locals, answer, metering>>

----------------------------------------------------------------------------
(* find_critical_months and get_summary *)

\* the first element taken for the minimum
SeqMin_first(q) == q[1]

\* Series.min()
SeqMin(q) == CHOOSE m \in Range(q) : \A x \in Range(q) : m <= x

\* the filter with <= 0 for < 0
RECURSIVE NegativeMonths_le(_, _)
NegativeMonths_le(months, balances) ==
    IF months = <<>> THEN <<>>
    ELSE (IF Head(balances) <= 0 THEN <<Head(months)>> ELSE <<>>)
         \o NegativeMonths_le(Tail(months), Tail(balances))

\* df[df[balance_col] < 0]["month"].tolist()
RECURSIVE NegativeMonths(_, _)
NegativeMonths(months, balances) ==
    IF months = <<>> THEN <<>>
    ELSE (IF Head(balances) < 0 THEN <<Head(months)>> ELSE <<>>)
         \o NegativeMonths(Tail(months), Tail(balances))

\* find_critical_months without the test of the sign of the minimum
find_critical_months_abs(d) ==
    LET min_balance == SeqMin(d.balance)
        negative_months == NegativeMonths(d.month, d.balance)
        critical_months == IF Len(negative_months) > 0 THEN negative_months ELSE <<>>
        need_support == abs(min_balance)
    IN  [critical_months |-> critical_months, need_support |-> need_support]

find_critical_months(d) ==
    LET min_balance == SeqMin(d.balance)
        negative_months == NegativeMonths(d.month, d.balance)
        critical_months == IF Len(negative_months) > 0 THEN negative_months ELSE <<>>
        need_support == IF min_balance < 0 THEN abs(min_balance) ELSE 0
    IN  [critical_months |-> critical_months, need_support |-> need_support]

FindCriticalMonths ==
    /\ pc = "critical"
    /\ found' = find_critical_months(df)
    /\ pc' = "summary"
    /\ UNCHANGED <<GLOBAL_CITY_DATABASE, args, self, frame, df, result, exc>>
    /\ UNCHANGED <<kept, topped, calls, locals, answer, metering>>

\* the dictionary with final_balance read from the first row (iloc[0])
summary_first_row(s, d, f) ==
    [country |-> s.country,
     city |-> s.city,
     currency |-> s.currency,
     currency_symbol |-> s.currency_symbol,
     monthly_income |-> s.monthly_income,
     monthly_expense_base |-> s.monthly_rent + s.monthly_living_cost,
     tuition_monthly |-> s.tuition_monthly,
     final_balance |-> d.balance[1],
     min_balance |-> SeqMin(d.balance),
     critical_months |-> f.critical_months,
     need_support |-> f.need_support,
     cashflow_df |-> d,
     data_sources |-> s.data_sources,
     monthly_rent |-> s.monthly_rent,
     monthly_living_cost |-> s.monthly_living_cost]

\* the dictionary get_summary returns
summary(s, d, f) ==
    [country |-> s.country,
     city |-> s.city,
     currency |-> s.currency,
     currency_symbol |-> s.currency_symbol,
     monthly_income |-> s.monthly_income,
     monthly_expense_base |-> s.monthly_rent + s.monthly_living_cost,
     tuition_monthly |-> s.tuition_monthly,
     final_balance |-> d.balance[Len(d.balance)],
     min_balance |-> SeqMin(d.balance),
     critical_months |-> f.critical_months,
     need_support |-> f.need_support,
     cashflow_df |-> d,
     data_sources |-> s.data_sources,
     monthly_rent |-> s.monthly_rent,
     monthly_living_cost |-> s.monthly_living_cost]

SummaryReturn ==
    /\ pc = "summary"
    /\ result' = summary(self, df, found)
    /\ pc' = "returned"
    /\ UNCHANGED <<GLOBAL_CITY_DATABASE, args, self, frame, df, found, exc>>
    /\ UNCHANGED <<kept, topped, calls, locals, answer, metering>>

\* an except clause that returns what was built so far instead of raising
raised_partial(where) ==
    [exc |-> CalculationError("get_summary", CalculationError(where, Exception(where))),
     result |-> [cashflow_df |-> df]]

\* except clauses that let the exception through as it was raised
raised_unwrapped(where) ==
    [exc |-> Exception(where), result |-> None]

\* what reaches the caller when a statement inside the try blocks raises:
\* the except clause of the method re-raises it as CalculationError, the
\* except clause of get_summary wraps what calculate_cashflow and
\* find_critical_months raised once more, and nothing is returned
raised(where) ==
    [exc |-> IF where = "get_summary"
             THEN CalculationError("get_summary", Exception(where))
             ELSE CalculationError("get_summary", CalculationError(where, Exception(where))),
     result |-> None]

\* a library call inside calculate_cashflow, find_critical_months or get_summary raises
Raise ==
    /\ pc \in {"cashflow", "critical", "summary"}
    /\ LET where == IF pc = "cashflow" THEN "calculate_cashflow"
                    ELSE IF pc = "critical" THEN "find_critical_months"
                    ELSE "get_summary"
       IN /\ exc' = raised(where).exc
          /\ result' = raised(where).result
    /\ frame' = None
    /\ df' = None
    /\ found' = None
    /\ pc' = "raised"
    /\ UNCHANGED <<GLOBAL_CITY_DATABASE, args, self>>
    /\ UNCHANGED <<kept, topped, calls, locals, answer, metering>>

\* the caller drops the calculator and what it got from it
Discard ==
    /\ pc \in {"returned", "raised"}
    /\ pc' = "idle"
    /\ args' = None
    /\ self' = None
    /\ frame' = None
    /\ df' = None
    /\ found' = None
    /\ result' = None
    /\ exc' = None
    /\ UNCHANGED GLOBAL_CITY_DATABASE
    /\ topped' = None
    /\ UNCHANGED <<kept, calls, locals, answer, metering>>

\* StudyCostCalculator(...) is called with some scenario
Construct ==
    /\ pc = "idle"
    /\ topped = None
    /\ answer = None
    /\ \E a \in Scenarios : InitValidate(a)
    /\ UNCHANGED <<kept, topped, calls, locals, answer, metering>>

Next ==
    \/ Construct
    \/ InitAssign
    \/ InitDerive
    \/ CashflowEnter
    \/ CashflowStep
    \/ CashflowReturn
    \/ FindCriticalMonths
    \/ SummaryReturn
    \/ Raise
    \/ Discard

Spec == Init /\ [][Next]_vars

----------------------------------------------------------------------------
(* Properties *)

\* the ledger and the summary the caller holds once get_summary has returned
Returned == pc = "returned"

Ledger == result.cashflow_df

WholeCents(x) == x % 10 = 0

\* the conditions of the validation contract, stated on the catalogue as
\* initialised and the raw arguments
Rejectable(a) ==
    \/ a.country \notin DOMAIN InitialDatabase
    \/ a.country \in DOMAIN InitialDatabase /\ a.city \notin DOMAIN InitialDatabase[a.country]
    \/ a.rent_type \notin RentTypes
    \/ a.initial_deposit < 0
    \/ a.tuition_total < 0
    \/ a.weekly_hours < 0
    \/ a.weekly_hours > 4000
    \/ a.hourly_wage < 0
    \/ a.tuition_payment \notin PaymentModes

\* C1: constructing the calculator fails with InvalidInput exactly when the
\* scenario breaks one of the validation rules; values on a boundary
\* (weeklyHours 0 or 40, deposit, tuition and wage 0) are accepted and the
\* first value beyond a boundary is rejected.
C1_ValidationContract ==
    /\ (pc = "raised" /\ exc.type = "InvalidInputError") => Rejectable(args)
    /\ (args # None /\ Rejectable(args)) => (pc = "raised" /\ exc.type = "InvalidInputError")

\* 40.01 hours a week, every other field on its accepted boundary, is rejected
C1_Witness ==
    /\ pc = "raised"
    /\ exc.type = "InvalidInputError"
    /\ args = Scenario("Portugal", "Lisbon", "shared", TRUE, 4001, 0, 0, 0, "lumpSum")

\* the balance fold over the stored (rounded) values of the ledger rows
FoldHolds(d, initial_deposit) ==
    \A k \in 1 .. Len(d.balance) :
        d.balance[k] = Round2((IF k = 1 THEN initial_deposit ELSE d.balance[k - 1])
                                 + d.income[k] - d.expense[k], 1)

\* C2 as stated: in every valid scenario each stored balance is the previous
\* stored balance (the deposit for the first row) plus the stored income
\* minus the stored expense, rounded to cents.
C2_FoldEveryScenario == Returned => FoldHolds(Ledger, args.initial_deposit)

\* C2 amended: the fold over the stored values holds when the deposit is a
\* whole number of cents and, under lump-sum payment, the tuition is too.
C2_FoldWholeCents ==
    (/\ Returned
     /\ WholeCents(args.initial_deposit)
     /\ args.tuition_payment = "lumpSum" => WholeCents(args.tuition_total))
    => FoldHolds(Ledger, args.initial_deposit)

C2_Witness ==
    /\ Returned
    /\ args.has_job
    /\ args.initial_deposit = 5000000
    /\ args.tuition_total = 1234540
    /\ args.tuition_payment = "installment"
    /\ FoldHolds(Ledger, args.initial_deposit)

\* C3: needSupport is 0, criticalMonths is empty and minBalance is not
\* negative, all three together or none of them.
C3_ShortfallConsistency ==
    Returned =>
        /\ (result.need_support = 0) <=> (result.critical_months = <<>>)
        /\ (result.critical_months = <<>>) <=> (result.min_balance >= 0)

\* a projection that ends on a balance of exactly 0 and was never negative
C3_Witness ==
    /\ Returned
    /\ result.min_balance = 0
    /\ result.need_support = 0
    /\ result.critical_months = <<>>

\* Lisbon, shared room, 15 h a week at 8.00, deposit 5000, tuition 5000 in instalments
WorkingStudent ==
    Scenario("Portugal", "Lisbon", "shared", TRUE, 1500, 800, 5000000, 5000000, "installment")

\* C4 as stated: for the working student in Lisbon criticalMonths is empty
\* and no row's running balance is negative.
C4_NoCriticalMonth ==
    (Returned /\ args = WorkingStudent) =>
        /\ result.critical_months = <<>>
        /\ \A k \in 1 .. 12 : Ledger.balance[k] >= 0

\* C4 amended: for the working student in Lisbon the balance stays
\* non-negative through Apr and is negative from May on, so criticalMonths
\* is May, Jun, Jul, Aug and needSupport is the Aug balance, 964.80.
C4_CriticalFromMay ==
    (Returned /\ args = WorkingStudent) =>
        /\ result.critical_months = <<"May", "Jun", "Jul", "Aug">>
        /\ \A k \in 1 .. 8 : Ledger.balance[k] >= 0
        /\ \A k \in 9 .. 12 : Ledger.balance[k] < 0
        /\ Ledger.balance[12] = -964800
        /\ result.need_support = 964800

C4_Witness ==
    /\ Returned
    /\ args = WorkingStudent
    /\ Ledger.balance[8] = 356800
    /\ Ledger.balance[9] = -223600

\* Lisbon, shared room, no job, deposit 500, tuition 6000 paid at once
LumpSumStudent ==
    Scenario("Portugal", "Lisbon", "shared", FALSE, 1500, 800, 500000, 6000000, "lumpSum")

\* C5 as stated: for the student without a job needSupport is 6100.00, the
\* month-0 balance of -6100 being the minimum of the year.
C5_NeedSupport6100 ==
    (Returned /\ args = LumpSumStudent) =>
        /\ result.need_support = 6100000
        /\ result.min_balance = Ledger.balance[1]

\* C5 amended: the month-0 balance is -6100.00, the balance then falls by
\* 600 every month, the minimum is the last row's -12700.00 and needSupport
\* is 12700.00.
C5_NeedSupport12700 ==
    (Returned /\ args = LumpSumStudent) =>
        /\ Ledger.balance[1] = -6100000
        /\ \A k \in 2 .. 12 : Ledger.balance[k] = Ledger.balance[k - 1] - 600000
        /\ result.min_balance = Ledger.balance[12]
        /\ result.need_support = 12700000

C5_Witness ==
    /\ Returned
    /\ args = LumpSumStudent
    /\ Ledger.expense[1] = 6600000
    /\ result.min_balance = -12700000

\* the calculator exists with its derived attributes
Derived == self # None /\ "tuition_monthly" \in DOMAIN self

\* what ten instalments add up to, rounded to cents, against the tuition
Drift(s) == abs(Round2(s.tuition_monthly * TUITION_PAYMENT_MONTHS, 1) - s.tuition_total)

\* C6 as stated: in instalment mode ten monthly shares, rounded to cents,
\* differ from tuitionTotal by at most 0.02.
C6_ConservationWithin2Cents ==
    (Derived /\ self.tuition_payment = "installment") => Drift(self) <= 20

\* C6 amended: in instalment mode ten monthly shares, rounded to cents,
\* differ from tuitionTotal by at most 0.05.
C6_ConservationWithin5Cents ==
    (Derived /\ self.tuition_payment = "installment") => Drift(self) <= 50

\* 1234.54 in ten shares of 123.45: four cents are lost
C6_Witness ==
    /\ Derived
    /\ self.tuition_payment = "installment"
    /\ self.tuition_total = 1234540
    /\ self.tuition_monthly = 123450
    /\ Drift(self) = 40

BaseExpense(s) == s.monthly_rent + s.monthly_living_cost

\* C7 as stated: under lumpSum row 0 has expense rent + livingCost +
\* tuitionTotal, rows 1..11 have expense rent + livingCost, and
\* monthlyTuitionShare is 0.
C7_LumpSumExact ==
    (Returned /\ args.tuition_payment = "lumpSum") =>
        /\ Ledger.expense[1] = BaseExpense(self) + args.tuition_total
        /\ \A k \in 2 .. 12 : Ledger.expense[k] = BaseExpense(self)
        /\ result.tuition_monthly = 0

\* C7 amended: under lumpSum row 0 has expense round(rent + livingCost +
\* tuitionTotal, 2), rows 1..11 have expense rent + livingCost, and
\* monthlyTuitionShare is 0.
C7_LumpSumRounded ==
    (Returned /\ args.tuition_payment = "lumpSum") =>
        /\ Ledger.expense[1] = Round2(BaseExpense(self) + args.tuition_total, 1)
        /\ \A k \in 2 .. 12 : Ledger.expense[k] = BaseExpense(self)
        /\ result.tuition_monthly = 0

C7_Witness ==
    /\ Returned
    /\ args.tuition_payment = "lumpSum"
    /\ args.tuition_total = 6000000
    /\ Ledger.expense[1] = 6600000
    /\ Ledger.expense[2] = 600000

\* C8: under installment rows 0..9 have expense rent + livingCost +
\* round(tuitionTotal / 10, 2) and rows 10 and 11 rent + livingCost; rows 10
\* and 11 carry no tuition under either mode.
C8_InstallmentPlacement ==
    Returned =>
        /\ args.tuition_payment = "installment" =>
              /\ result.tuition_monthly = Round2(args.tuition_total, 10)
              /\ \A k \in 1 .. 10 :
                    Ledger.expense[k] = BaseExpense(self) + result.tuition_monthly
        /\ \A k \in 11 .. 12 : Ledger.expense[k] = BaseExpense(self)

C8_Witness ==
    /\ Returned
    /\ args.tuition_payment = "installment"
    /\ args.tuition_total = 1234540
    /\ Ledger.expense[10] = 723450
    /\ Ledger.expense[11] = 600000

SummaryKeys ==
    {"country", "city", "currency", "currency_symbol", "monthly_income",
     "monthly_expense_base", "tuition_monthly", "final_balance", "min_balance",
     "critical_months", "need_support", "cashflow_df", "data_sources",
     "monthly_rent", "monthly_living_cost"}

\* C9: the caller gets either a summary with all its fields and a ledger of
\* exactly 12 rows, or an error and nothing else; never a shorter ledger,
\* never a summary without its ledger.
C9_NoPartialResult ==
    /\ pc = "returned" =>
          /\ exc = None
          /\ result # None
    /\ pc = "raised" =>
          /\ exc # None
          /\ result = None
    /\ result # None =>
          /\ DOMAIN result = SummaryKeys
          /\ result.cashflow_df # None
          /\ Len(result.cashflow_df.month) = 12
          /\ Len(result.cashflow_df.income) = 12
          /\ Len(result.cashflow_df.expense) = 12
          /\ Len(result.cashflow_df.balance) = 12

\* get_summary failed after the ledger was built: the caller has the error only
C9_Witness ==
    /\ pc = "raised"
    /\ exc.type = "CalculationError"
    /\ exc.cause.where = "find_critical_months"
    /\ result = None

\* C10: no attribute of the calculator is assigned and no derived value is
\* computed until validation has run and passed, and a scenario validation
\* rejects leaves no calculator state and never enters calculate_cashflow.
C10_ValidationFirst ==
    /\ pc = "init_assign" => (self = None /\ ~Rejectable(args))
    /\ (self # None \/ frame # None \/ df # None \/ found # None \/ result # None)
          => (args # None /\ ~Rejectable(args))
    /\ (pc = "raised" /\ exc.type = "InvalidInputError")
          => (self = None /\ frame = None /\ df = None /\ found = None /\ result = None)

\* a scenario with a valid place and rent type and a negative deposit was rejected
C10_Witness ==
    /\ pc = "raised"
    /\ exc.type = "InvalidInputError"
    /\ exc.rule = "initial_deposit < 0"
    /\ self = None
    /\ frame = None

\* C13: every ledger returned has exactly 12 rows, labelled Sep, Oct, Nov,
\* Dec, Jan, Feb, Mar, Apr, May, Jun, Jul, Aug in this order, whatever the
\* scenario.
C13_TwelveLabelledRows ==
    Returned =>
        /\ Len(Ledger.month) = 12
        /\ Len(Ledger.income) = 12
        /\ Len(Ledger.expense) = 12
        /\ Len(Ledger.balance) = 12
        /\ Ledger.month[1] = "Sep" /\ Ledger.month[2] = "Oct"
        /\ Ledger.month[3] = "Nov" /\ Ledger.month[4] = "Dec"
        /\ Ledger.month[5] = "Jan" /\ Ledger.month[6] = "Feb"
        /\ Ledger.month[7] = "Mar" /\ Ledger.month[8] = "Apr"
        /\ Ledger.month[9] = "May" /\ Ledger.month[10] = "Jun"
        /\ Ledger.month[11] = "Jul" /\ Ledger.month[12] = "Aug"

\* a ledger returned for Porto, a dormitory, no job and a lump sum
C13_Witness ==
    /\ Returned
    /\ args.city = "Porto"
    /\ args.tuition_payment = "lumpSum"
    /\ Len(Ledger.month) = 12
    /\ Ledger.month[5] = "Jan"

\* the rows of a ledger whose running balance is negative
NegativeRows(d) == {k \in 1 .. Len(d.balance) : d.balance[k] < 0}

\* C14: criticalMonths is the subsequence of the ledger's month labels, in
\* ledger order, of the rows whose running balance is below 0: every such
\* month is listed, no month with a balance of 0 or more is listed, and no
\* label is listed twice.
C14_CriticalMonthsAreNegativeRows ==
    Returned =>
        /\ Len(result.critical_months) = Cardinality(NegativeRows(Ledger))
        /\ \A k \in NegativeRows(Ledger) :
              result.critical_months[Cardinality({i \in NegativeRows(Ledger) : i <= k})]
                  = Ledger.month[k]
        /\ \A i, j \in 1 .. Len(result.critical_months) :
              result.critical_months[i] = result.critical_months[j] => i = j

\* a ledger with a balance of exactly 0 in September, which is not listed,
\* and negative balances from October on
C14_Witness ==
    /\ Returned
    /\ Ledger.balance[1] = 0
    /\ Ledger.balance[2] < 0
    /\ Len(result.critical_months) = 11
    /\ result.critical_months[1] = "Oct"

\* C15: finalBalance is the running balance of the 12th row, minBalance the
\* least running balance of the 12 rows, needSupport the absolute value of
\* minBalance when that is negative and 0 otherwise, hence never negative.
C15_SummaryFromLedger ==
    Returned =>
        /\ result.final_balance = Ledger.balance[12]
        /\ \E k \in 1 .. 12 : result.min_balance = Ledger.balance[k]
        /\ \A k \in 1 .. 12 : result.min_balance <= Ledger.balance[k]
        /\ result.min_balance < 0 => result.need_support = 0 - result.min_balance
        /\ result.min_balance >= 0 => result.need_support = 0
        /\ result.need_support >= 0

\* a ledger whose least balance is neither its first nor its last row
C15_Witness ==
    /\ Returned
    /\ result.min_balance < 0
    /\ result.min_balance < Ledger.balance[1]
    /\ result.min_balance < Ledger.balance[12]
    /\ result.final_balance = Ledger.balance[12]
    /\ result.need_support = 0 - result.min_balance

\* C16: every row of the ledger carries the same income, monthlyIncome,
\* which is 0 when hasJob is false whatever hours and wage were supplied
\* (the hours being forced to 0) and round(weeklyHours * 4.33 * hourlyWage, 2)
\* when hasJob is true.
C16_IncomeRule ==
    Returned =>
        /\ \A k \in 1 .. 12 : Ledger.income[k] = result.monthly_income
        /\ ~args.has_job => (result.monthly_income = 0 /\ self.weekly_hours = 0)
        /\ args.has_job =>
              result.monthly_income = Round2(args.weekly_hours * 433 * args.hourly_wage, 1000)

\* a ledger without a job though 15 hours at 8.00 were supplied
C16_Witness ==
    /\ Returned
    /\ ~args.has_job
    /\ args.weekly_hours = 1500
    /\ args.hourly_wage = 800
    /\ Ledger.income[12] = 0

\* C17: for Lisbon, a shared room, a job of 15 h a week at 8.00, deposit
\* 5000, tuition 5000 in instalments: monthlyIncome is 519.60, the monthly
\* tuition share 500.00, the expense of the first row 1100.00 and its
\* running balance 4419.60.
C17_WorkingStudentFigures ==
    (Returned /\ args = WorkingStudent) =>
        /\ result.monthly_income = 519600
        /\ result.tuition_monthly = 500000
        /\ Ledger.expense[1] = 1100000
        /\ Ledger.balance[1] = 4419600

C17_Witness ==
    /\ Returned
    /\ args = WorkingStudent
    /\ Ledger.income[1] = 519600
    /\ Ledger.balance[1] = 4419600

\* the field of scenario a that breaks a validation rule
Offending(a, field) ==
    \/ field = "country" /\ a.country \notin DOMAIN InitialDatabase
    \/ field = "city" /\ a.country \in DOMAIN InitialDatabase
                      /\ a.city \notin DOMAIN InitialDatabase[a.country]
    \/ field = "rent_type" /\ a.rent_type \notin RentTypes
    \/ field = "initial_deposit" /\ a.initial_deposit < 0
    \/ field = "tuition_total" /\ a.tuition_total < 0
    \/ field = "weekly_hours" /\ (a.weekly_hours < 0 \/ a.weekly_hours > 4000)
    \/ field = "hourly_wage" /\ a.hourly_wage < 0
    \/ field = "tuition_payment" /\ a.tuition_payment \notin PaymentModes

\* C18: every InvalidInput failure names a field of the scenario that breaks
\* a rule, and the failures for country, city, rentType and
\* tuitionPaymentMode list the valid choices: the countries of the
\* catalogue, the cities of the given country, the three rent types, the
\* two payment modes.
C18_FailureNamesFieldAndChoices ==
    (pc = "raised" /\ exc.type = "InvalidInputError") =>
        /\ Offending(args, exc.field)
        /\ exc.field = "country" => Range(exc.choices) = DOMAIN InitialDatabase
        /\ exc.field = "city" => Range(exc.choices) = DOMAIN InitialDatabase[args.country]
        /\ exc.field = "rent_type" => Range(exc.choices) = {"single", "shared", "dorm"}
        /\ exc.field = "tuition_payment" => Range(exc.choices) = {"lumpSum", "installment"}

\* London asked for in Portugal: the failure names the city and lists
\* Portugal's cities
C18_Witness ==
    /\ pc = "raised"
    /\ exc.type = "InvalidInputError"
    /\ args.country = "Portugal"
    /\ args.city = "London"
    /\ exc.field = "city"
    /\ Range(exc.choices) = {"Lisbon", "Porto"}

\* the exception at the bottom of a chain of wrapped exceptions
RECURSIVE UnderlyingCause(_)
UnderlyingCause(e) ==
    IF "cause" \in DOMAIN e THEN UnderlyingCause(e.cause) ELSE e

\* the calculator was built, so what failed was the ledger or the summary
FailedAfterConstruction == pc = "raised" /\ self # None

\* C19: a failure raised while the ledger is built or the summary derived
\* reaches the caller as a CalculationError that carries the underlying
\* cause and is not an InvalidInput; a validation failure reaches the caller
\* as an InvalidInput, raised before the ledger is started, which the caller
\* can tell from such a CalculationError; nothing else reaches the caller.
C19_TwoErrorKinds ==
    pc = "raised" =>
        /\ exc.type \in {"CalculationError", "InvalidInputError"}
        /\ FailedAfterConstruction =>
              /\ isinstance(exc, "CalculationError")
              /\ ~isinstance(exc, "InvalidInputError")
              /\ UnderlyingCause(exc).type = "Exception"
              /\ UnderlyingCause(exc).where
                    \in {"calculate_cashflow", "find_critical_months", "get_summary"}
        /\ ~FailedAfterConstruction =>
              /\ isinstance(exc, "InvalidInputError")
              /\ Rejectable(args)
              /\ frame = None /\ df = None /\ found = None

\* a failure inside calculate_cashflow, wrapped there and again by get_summary
C19_Witness ==
    /\ FailedAfterConstruction
    /\ exc.type = "CalculationError"
    /\ exc.where = "get_summary"
    /\ exc.cause.type = "CalculationError"
    /\ UnderlyingCause(exc) = Exception("calculate_cashflow")

----------------------------------------------------------------------------
(* The caller projects the scenario again with a larger deposit *)

\* the caller reads need_support off a summary with a shortfall and decides
\* to project again with the deposit raised by it, or by up to
\* MaxCentsShort cents less
TopUp ==
    /\ pc = "returned"
    /\ result.need_support > 0
    /\ \E k \in 0 .. MaxCentsShort :
          /\ result.need_support - 10 * k >= 0
          /\ topped' = [args |-> args, need_support |-> result.need_support,
                        by |-> result.need_support - 10 * k]
    /\ pc' = "idle"
    /\ args' = None
    /\ self' = None
    /\ frame' = None
    /\ df' = None
    /\ found' = None
    /\ result' = None
    /\ exc' = None
    /\ UNCHANGED <<GLOBAL_CITY_DATABASE, kept, calls, locals, answer, metering>>

\* the scenario of the earlier projection with the deposit raised
ToppedUp(t) == [t.args EXCEPT !.initial_deposit = @ + t.by]

\* StudyCostCalculator(...) is called with the raised deposit
ConstructToppedUp ==
    /\ pc = "idle"
    /\ topped # None
    /\ InitValidate(ToppedUp(topped))
    /\ UNCHANGED <<kept, topped, calls, locals, answer, metering>>

NextTopUp ==
    \/ Next
    \/ TopUp
    \/ ConstructToppedUp

SpecTopUp == Init /\ [][NextTopUp]_vars

\* C11: needSupport is the least top-up of the deposit.  When a scenario
\* with deposit and tuition in whole cents has needSupport s > 0, the same
\* scenario with the deposit raised by s has no critical month and
\* needSupport 0, and with the deposit raised by less than s (one cent less
\* or more) it still has a critical month.
C11_LeastTopUp ==
    (/\ Returned
     /\ topped # None
     /\ WholeCents(topped.args.initial_deposit)
     /\ WholeCents(topped.args.tuition_total))
    => /\ args = [topped.args EXCEPT !.initial_deposit = @ + topped.by]
       /\ topped.by = topped.need_support =>
             /\ result.critical_months = <<>>
             /\ result.need_support = 0
       /\ topped.by < topped.need_support =>
             result.critical_months # <<>>

\* the working student's shortfall of 964.80 added to the deposit of 5000:
\* the projection of the deposit 5964.80 has no critical month
C11_Witness ==
    /\ Returned
    /\ topped # None
    /\ topped.args = WorkingStudent
    /\ topped.need_support = 964800
    /\ topped.by = 964800
    /\ args.initial_deposit = 5964800
    /\ result.critical_months = <<>>

\* one cent less than the shortfall leaves August critical
C11_WitnessOneCentLess ==
    /\ Returned
    /\ topped # None
    /\ topped.args = WorkingStudent
    /\ topped.by = 964790
    /\ result.critical_months = <<"Aug">>

----------------------------------------------------------------------------
(* The caller projects a scenario it has projected before *)

\* the scenarios whose first projection the caller keeps for comparison
KeptScenarios ==
    {WorkingStudent,
     Scenario("Portugal", "Porto", "dorm", FALSE, 0, 800, 10000000, 6000000, "lumpSum"),
     Scenario("Portugal", "Lisbon", "shared", TRUE, 2000, 1000, 1000000, 5000000, "installment")}

\* the caller keeps the summary it got and drops the calculator
Keep ==
    /\ pc = "returned"
    /\ kept = None
    /\ args \in KeptScenarios
    /\ kept' = [args |-> args, result |-> result]
    /\ pc' = "idle"
    /\ args' = None
    /\ self' = None
    /\ frame' = None
    /\ df' = None
    /\ found' = None
    /\ result' = None
    /\ exc' = None
    /\ UNCHANGED <<GLOBAL_CITY_DATABASE, topped, calls, locals, answer, metering>>

\* the caller calls get_summary() of the same calculator once more
SummaryAgain ==
    /\ pc = "returned"
    /\ kept' = IF kept = None /\ args \in KeptScenarios
               THEN [args |-> args, result |-> result]
               ELSE kept
    /\ pc' = "constructed"
    /\ df' = None
    /\ found' = None
    /\ result' = None
    /\ UNCHANGED <<GLOBAL_CITY_DATABASE, args, self, frame, exc, topped, calls, locals, answer, metering>>

NextRerun ==
    \/ Next
    \/ Keep
    \/ SummaryAgain

SpecRerun == Init /\ [][NextRerun]_vars

\* C12: a projection of a scenario returns the ledger (all 12 rows) and the
\* summary that an earlier projection of the same scenario against the same
\* catalogue returned, whatever was projected before or in between.
C12_Determinism ==
    (Returned /\ kept # None /\ args = kept.args) =>
        /\ GLOBAL_CITY_DATABASE = InitialDatabase
        /\ result.cashflow_df = kept.result.cashflow_df
        /\ result = kept.result

\* the working student projected a second time
C12_Witness ==
    /\ Returned
    /\ kept # None
    /\ kept.args = WorkingStudent
    /\ args = WorkingStudent
    /\ result.cashflow_df.balance[12] = kept.result.cashflow_df.balance[12]

----------------------------------------------------------------------------
(* Several callers project concurrently *)

\* the scenarios the concurrent callers project: two valid ones and one
\* with a negative deposit
ConcurrentScenarios ==
    {WorkingStudent,
     Scenario("Portugal", "Porto", "dorm", FALSE, 0, 800, 10000000, 6000000, "lumpSum"),
     Scenario("Portugal", "Lisbon", "shared", FALSE, 0, 0, -1, 0, "lumpSum")}

\* a single list of locals that every invocation of calculate_cashflow uses
locals_of_shared(p) == 1

\* the locals of calculate_cashflow belong to the invocation that called it
locals_of(p) == p

\* invocation p calls StudyCostCalculator(...): _validate_inputs runs
CallInitValidate(p, a) ==
    /\ calls[p].pc = "idle"
    /\ LET e == validate_inputs(a.country, a.city, a.rent_type, a.weekly_hours,
                                a.hourly_wage, a.initial_deposit, a.tuition_total,
                                a.tuition_payment)
       IN calls' = [calls EXCEPT ![p] =
                       IF e # None
                       THEN [IdleCall EXCEPT !.pc = "raised", !.args = a, !.exc = e]
                       ELSE [IdleCall EXCEPT !.pc = "init_assign", !.args = a]]
    /\ UNCHANGED locals

CallInitAssign(p) ==
    /\ calls[p].pc = "init_assign"
    /\ LET r == init_attributes(calls[p].args)
       IN calls' = [calls EXCEPT ![p] =
                       IF r.exc # None
                       THEN [@ EXCEPT !.pc = "raised", !.exc = r.exc]
                       ELSE [@ EXCEPT !.pc = "init_derive", !.self = r.self]]
    /\ UNCHANGED locals

CallInitDerive(p) ==
    /\ calls[p].pc = "init_derive"
    /\ calls' = [calls EXCEPT ![p] =
                    [@ EXCEPT !.pc = "constructed", !.self = init_derived(@)]]
    /\ UNCHANGED locals

CallCashflowEnter(p) ==
    /\ calls[p].pc = "constructed"
    /\ locals' = [locals EXCEPT ![locals_of(p)] = cashflow_locals(calls[p].self)]
    /\ calls' = [calls EXCEPT ![p] = [@ EXCEPT !.pc = "cashflow"]]

CallCashflowStep(p) ==
    /\ calls[p].pc = "cashflow"
    /\ locals[locals_of(p)] # None
    /\ Len(locals[locals_of(p)].months) < Len(month_names)
    /\ locals' = [locals EXCEPT ![locals_of(p)] = cashflow_iteration(@, calls[p].self)]
    /\ UNCHANGED calls

CallCashflowReturn(p) ==
    /\ calls[p].pc = "cashflow"
    /\ locals[locals_of(p)] # None
    /\ Len(locals[locals_of(p)].months) = Len(month_names)
    /\ calls' = [calls EXCEPT ![p] =
                    [@ EXCEPT !.pc = "critical",
                              !.df = DataFrame(locals[locals_of(p)], calls[p].self)]]
    /\ locals' = [locals EXCEPT ![locals_of(p)] = None]

CallFindCriticalMonths(p) ==
    /\ calls[p].pc = "critical"
    /\ calls' = [calls EXCEPT ![p] =
                    [@ EXCEPT !.pc = "summary", !.found = find_critical_months(calls[p].df)]]
    /\ UNCHANGED locals

CallSummaryReturn(p) ==
    /\ calls[p].pc = "summary"
    /\ calls' = [calls EXCEPT ![p] =
                    [@ EXCEPT !.pc = "returned",
                              !.result = summary(calls[p].self, calls[p].df, calls[p].found)]]
    /\ UNCHANGED locals

\* the caller of invocation p drops what it got
CallDiscard(p) ==
    /\ calls[p].pc \in {"returned", "raised"}
    /\ calls' = [calls EXCEPT ![p] = IdleCall]
    /\ UNCHANGED locals

\* the single caller of the sequential model takes no step
Sequential == <<pc, args, self, frame, df, found, result, exc, kept, topped,
                answer, metering>>

CallConstruct ==
    /\ \E p \in Calls : \E a \in ConcurrentScenarios : CallInitValidate(p, a)
    /\ UNCHANGED <<GLOBAL_CITY_DATABASE, Sequential>>

CallInit ==
    /\ \E p \in Calls : CallInitAssign(p) \/ CallInitDerive(p)
    /\ UNCHANGED <<GLOBAL_CITY_DATABASE, Sequential>>

CallCashflow ==
    /\ \E p \in Calls : CallCashflowEnter(p) \/ CallCashflowStep(p) \/ CallCashflowReturn(p)
    /\ UNCHANGED <<GLOBAL_CITY_DATABASE, Sequential>>

CallSummary ==
    /\ \E p \in Calls : CallFindCriticalMonths(p) \/ CallSummaryReturn(p)
    /\ UNCHANGED <<GLOBAL_CITY_DATABASE, Sequential>>

CallEnd ==
    /\ \E p \in Calls : CallDiscard(p)
    /\ UNCHANGED <<GLOBAL_CITY_DATABASE, Sequential>>

NextConcurrent ==
    \/ CallConstruct
    \/ CallInit
    \/ CallCashflow
    \/ CallSummary
    \/ CallEnd

SpecConcurrent == Init /\ [][NextConcurrent]_vars

\* the loop of calculate_cashflow run to its end on the locals f
RECURSIVE cashflow_loop(_, _)
cashflow_loop(f, s) ==
    IF Len(f.months) = Len(month_names) THEN f
    ELSE cashflow_loop(cashflow_iteration(f, s), s)

\* what StudyCostCalculator(a).get_summary() gives a caller that runs alone:
\* the summary, or the exception the constructor raises
buildProjection(a) ==
    LET e == validate_inputs(a.country, a.city, a.rent_type, a.weekly_hours,
                             a.hourly_wage, a.initial_deposit, a.tuition_total,
                             a.tuition_payment)
        r == init_attributes(a)
        s == init_derived(r.self)
        d == DataFrame(cashflow_loop(cashflow_locals(s), s), s)
    IN  IF e # None THEN [result |-> None, exc |-> e]
        ELSE IF r.exc # None THEN [result |-> None, exc |-> r.exc]
        ELSE [result |-> summary(s, d, find_critical_months(d)), exc |-> None]

\* the single caller of the sequential model gets what buildProjection gives
AloneIsBuildProjection ==
    /\ Returned => (result = buildProjection(args).result /\ exc = None)
    /\ (pc = "raised" /\ exc.type = "InvalidInputError")
          => (exc = buildProjection(args).exc /\ result = None)

\* C20: under every interleaving of the steps of several invocations each
\* invocation gets the ledger and the summary, or the error, that it gets
\* when it runs alone, and the catalogue, the only state they share, is
\* written by none of them.
C20_ConcurrentIndependence ==
    /\ GLOBAL_CITY_DATABASE = InitialDatabase
    /\ \A p \in Calls :
          /\ calls[p].pc = "returned" =>
                /\ calls[p].result = buildProjection(calls[p].args).result
                /\ calls[p].exc = None
          /\ calls[p].pc = "raised" =>
                /\ calls[p].exc = buildProjection(calls[p].args).exc
                /\ calls[p].result = None

\* one invocation has its summary while another, of a different scenario,
\* is in the middle of its loop over the months
C20_Witness ==
    \E p, q \in Calls :
        /\ calls[p].pc = "returned"
        /\ calls[p].args = WorkingStudent
        /\ calls[p].result.need_support = 964800
        /\ calls[q].pc = "cashflow"
        /\ calls[q].args # calls[p].args
        /\ locals[locals_of(q)] # None
        /\ Len(locals[locals_of(q)].months) = 6

----------------------------------------------------------------------------
(* The caller asks the catalogue *)

\* the names the accessors are asked about: those of the catalogue and one
\* more of each kind
AskedCountries == {"Portugal", "UK", "Atlantis"}

AskedCities == {"Lisbon", "Porto", "London", "Gotham"}

AskedRentTypes == RentTypes \cup {"villa"}

AskedCurrencies == {"EUR", "GBP", "XXX"}

\* the caller calls get_countries()
GetCountries ==
    /\ pc = "idle"
    /\ answer' = [op |-> "get_countries", args |-> <<>>, value |-> get_countries]
    /\ UNCHANGED <<GLOBAL_CITY_DATABASE, pc, args, self, frame, df, found, result, exc>>
    /\ UNCHANGED <<kept, topped, calls, locals, metering>>

\* the caller calls get_cities(country)
GetCities ==
    /\ pc = "idle"
    /\ \E country \in AskedCountries :
          answer' = [op |-> "get_cities", args |-> <<country>>, value |-> get_cities(country)]
    /\ UNCHANGED <<GLOBAL_CITY_DATABASE, pc, args, self, frame, df, found, result, exc>>
    /\ UNCHANGED <<kept, topped, calls, locals, metering>>

\* the caller calls get_city_data(country, city)
GetCityData ==
    /\ pc = "idle"
    /\ \E country \in AskedCountries, city \in AskedCities :
          answer' = [op |-> "get_city_data", args |-> <<country, city>>,
                     value |-> get_city_data(country, city)]
    /\ UNCHANGED <<GLOBAL_CITY_DATABASE, pc, args, self, frame, df, found, result, exc>>
    /\ UNCHANGED <<kept, topped, calls, locals, metering>>

\* the caller calls get_rent_by_type(country, city, rent_type)
GetRentByType ==
    /\ pc = "idle"
    /\ \E country \in AskedCountries, city \in AskedCities, rent_type \in AskedRentTypes :
          answer' = [op |-> "get_rent_by_type", args |-> <<country, city, rent_type>>,
                     value |-> get_rent_by_type(country, city, rent_type)]
    /\ UNCHANGED <<GLOBAL_CITY_DATABASE, pc, args, self, frame, df, found, result, exc>>
    /\ UNCHANGED <<kept, topped, calls, locals, metering>>

\* the caller calls get_currency_symbol(currency_code)
GetCurrencySymbol ==
    /\ pc = "idle"
    /\ \E currency_code \in AskedCurrencies :
          answer' = [op |-> "get_currency_symbol", args |-> <<currency_code>>,
                     value |-> get_currency_symbol(currency_code)]
    /\ UNCHANGED <<GLOBAL_CITY_DATABASE, pc, args, self, frame, df, found, result, exc>>
    /\ UNCHANGED <<kept, topped, calls, locals, metering>>

\* the caller is done with the answer
DropAnswer ==
    /\ answer # None
    /\ answer' = None
    /\ UNCHANGED <<GLOBAL_CITY_DATABASE, pc, args, self, frame, df, found, result, exc>>
    /\ UNCHANGED <<kept, topped, calls, locals, metering>>

NextCatalog ==
    \/ Next
    \/ GetCountries
    \/ GetCities
    \/ GetCityData
    \/ GetRentByType
    \/ GetCurrencySymbol
    \/ DropAnswer

SpecCatalog == Init /\ [][NextCatalog]_vars

\* C21: whatever accessors were called and whatever the engine did,
\* successfully or not, the catalogue has the countries and cities it was
\* initialised with and every entry has its three rents, living cost,
\* currency code and sources as initialised.
C21_CatalogUnchanged ==
    /\ DOMAIN GLOBAL_CITY_DATABASE = DOMAIN InitialDatabase
    /\ \A country \in DOMAIN InitialDatabase :
          /\ DOMAIN GLOBAL_CITY_DATABASE[country] = DOMAIN InitialDatabase[country]
          /\ \A city \in DOMAIN InitialDatabase[country] :
                LET entry == GLOBAL_CITY_DATABASE[country][city]
                    initial == InitialDatabase[country][city]
                IN  /\ entry.rent_single = initial.rent_single
                    /\ entry.rent_shared = initial.rent_shared
                    /\ entry.rent_dorm = initial.rent_dorm
                    /\ entry.living_cost = initial.living_cost
                    /\ entry.currency = initial.currency
                    /\ entry.sources = initial.sources

\* a summary was returned for London, whose data_sources are the list of
\* the catalogue entry
C21_Witness ==
    /\ Returned
    /\ args.city = "London"
    /\ result.data_sources = GLOBAL_CITY_DATABASE["UK"]["London"].sources
    /\ Len(GLOBAL_CITY_DATABASE["UK"]["London"].sources) = 4

\* q lists every element of S once, in ascending order
AscendingListOf(q, S) ==
    /\ Range(q) = S
    /\ Len(q) = Cardinality(S)
    /\ \A i, j \in 1 .. Len(q) : i < j => NameRank[q[i]] < NameRank[q[j]]

\* C22: get_countries returns every country of the catalogue once, in
\* ascending order; get_cities(country) returns every city of the country
\* once, in ascending order, and the empty list for a country that is not
\* in the catalogue.
C22_SortedListings ==
    /\ (answer # None /\ answer.op = "get_countries") =>
          AscendingListOf(answer.value, DOMAIN InitialDatabase)
    /\ (answer # None /\ answer.op = "get_cities") =>
          IF answer.args[1] \in DOMAIN InitialDatabase
          THEN AscendingListOf(answer.value, DOMAIN InitialDatabase[answer.args[1]])
          ELSE answer.value = <<>>

\* the cities of Portugal were listed: Porto before Lisbon (波尔图 < 里斯本)
C22_Witness ==
    /\ answer # None
    /\ answer.op = "get_cities"
    /\ answer.args = <<"Portugal">>
    /\ answer.value = <<"Porto", "Lisbon">>

\* the rent the catalogue as initialised stores for a rent type
StoredRent(country, city, rent_type) ==
    IF rent_type = "single" THEN InitialDatabase[country][city].rent_single
    ELSE IF rent_type = "shared" THEN InitialDatabase[country][city].rent_shared
    ELSE InitialDatabase[country][city].rent_dorm

\* C23: get_rent_by_type returns None exactly when the (country, city) pair
\* is not an entry of the catalogue or the rent type is not one of the
\* three, and otherwise the rent the entry of exactly that pair stores for
\* the type; a city of another country is not found.
C23_RentLookup ==
    (answer # None /\ answer.op = "get_rent_by_type") =>
        LET country == answer.args[1]
            city == answer.args[2]
            rent_type == answer.args[3]
            entry == /\ country \in DOMAIN InitialDatabase
                     /\ city \in DOMAIN InitialDatabase[country]
        IN  /\ (answer.value = None) <=> (~entry \/ rent_type \notin {"single", "shared", "dorm"})
            /\ answer.value # None =>
                  answer.value.rent = StoredRent(country, city, rent_type)

\* London asked for under Portugal is not found
C23_Witness ==
    /\ answer # None
    /\ answer.op = "get_rent_by_type"
    /\ answer.args = <<"Portugal", "London", "single">>
    /\ answer.value = None

\* the dormitory rent of Porto is found
C23_WitnessFound ==
    /\ answer # None
    /\ answer.op = "get_rent_by_type"
    /\ answer.args = <<"Portugal", "Porto", "dorm">>
    /\ answer.value = [rent |-> 280]

----------------------------------------------------------------------------
(* Order and reach of the validation rules *)

\* the rules in the order C24 fixes
RuleOrder ==
    <<"country", "city", "rent_type", "initial_deposit < 0", "tuition_total < 0",
      "weekly_hours < 0", "weekly_hours > 40", "hourly_wage < 0", "tuition_payment">>

\* scenario a breaks the rule
Violates(a, rule) ==
    \/ rule = "country" /\ a.country \notin DOMAIN InitialDatabase
    \/ rule = "city" /\ (\/ a.country \notin DOMAIN InitialDatabase
                         \/ a.city \notin DOMAIN InitialDatabase[a.country])
    \/ rule = "rent_type" /\ a.rent_type \notin RentTypes
    \/ rule = "initial_deposit < 0" /\ a.initial_deposit < 0
    \/ rule = "tuition_total < 0" /\ a.tuition_total < 0
    \/ rule = "weekly_hours < 0" /\ a.weekly_hours < 0
    \/ rule = "weekly_hours > 40" /\ a.weekly_hours > 4000
    \/ rule = "hourly_wage < 0" /\ a.hourly_wage < 0
    \/ rule = "tuition_payment" /\ a.tuition_payment \notin PaymentModes

\* C24: the one InvalidInput a scenario is rejected with is that of the
\* first rule it breaks in the order country, city, rentType,
\* initialDeposit < 0, tuitionTotal < 0, weeklyHours < 0, weeklyHours > 40,
\* hourlyWage < 0, tuitionPaymentMode, however many rules it breaks.
C24_FirstViolatedRule ==
    (pc = "raised" /\ exc.type = "InvalidInputError") =>
        \E k \in 1 .. Len(RuleOrder) :
            /\ exc.rule = RuleOrder[k]
            /\ Violates(args, RuleOrder[k])
            /\ \A j \in 1 .. k - 1 : ~Violates(args, RuleOrder[j])

\* a scenario with a negative deposit, a negative tuition, 40.01 hours, a
\* negative wage and an unknown payment mode is rejected for the deposit
C24_Witness ==
    /\ pc = "raised"
    /\ args = Scenario("Portugal", "Lisbon", "shared", TRUE, 4001, -1, -1, -1, "monthly")
    /\ exc.type = "InvalidInputError"
    /\ exc.rule = "initial_deposit < 0"

\* C25: without a job the hours and the wage are still validated as
\* supplied: a scenario with hasJob false and weeklyHours above 40 or below
\* 0, or hourlyWage below 0, is rejected with InvalidInput.
C25_HoursValidatedWithoutJob ==
    (/\ args # None
     /\ ~args.has_job
     /\ \/ args.weekly_hours > 4000
        \/ args.weekly_hours < 0
        \/ args.hourly_wage < 0)
    => /\ pc = "raised"
       /\ exc.type = "InvalidInputError"
       /\ self = None

\* no job and 40.01 hours, everything else valid: rejected for the hours
C25_Witness ==
    /\ pc = "raised"
    /\ args = Scenario("Portugal", "Lisbon", "shared", FALSE, 4001, 0, 0, 0, "lumpSum")
    /\ exc.type = "InvalidInputError"
    /\ exc.rule = "weekly_hours > 40"


\* the tuition the twelve rows charge: the whole tuition under lumpSum, ten
\* rounded shares under installment
TuitionCharged ==
    IF args.tuition_payment = "lumpSum"
        THEN args.tuition_total
        ELSE TUITION_PAYMENT_MONTHS * result.tuition_monthly

C26_WitnessLumpSum ==
    /\ Returned
    /\ args.tuition_payment = "lumpSum"
    /\ args.tuition_total = 4
    /\ args.initial_deposit = 6
    /\ result.monthly_income = 0
    /\ BaseExpense(self) = 600000
    /\ Ledger.balance[12] = -7200000


----------------------------------------------------------------------------
(* calculator_optimized.py: the engine with its own table of costs.  Its   *)
(* constructor takes no country and no hourly wage.                        *)

optimized_WEEKS_PER_MONTH == 433

AVERAGE_HOURLY_WAGE == 800

optimized_TUITION_PAYMENT_MONTHS == 10

Costs(rent, living_cost) == [rent |-> rent, living_cost |-> living_cost]

\* "other" stands for the table's third key, which names no city
CITY_COSTS ==
    ("Lisbon" :> ("single" :> Costs(400, 350) @@ "shared" :> Costs(250, 300) @@ "dorm" :> Costs(300, 320)))
    @@ ("Porto" :> ("single" :> Costs(350, 320) @@ "shared" :> Costs(220, 280) @@ "dorm" :> Costs(280, 300)))
    @@ ("other" :> ("single" :> Costs(380, 330) @@ "shared" :> Costs(240, 290) @@ "dorm" :> Costs(290, 310)))

\* this module's own InvalidInputError carries a message only
optimized_InvalidInputError(rule) == [type |-> "InvalidInputError", rule |-> rule]

optimized_validate_inputs(city, rent_type, weekly_hours, initial_deposit, tuition_total, tuition_payment) ==
    IF city \notin DOMAIN CITY_COSTS
        THEN optimized_InvalidInputError("city")
    ELSE IF rent_type \notin DOMAIN CITY_COSTS[city]
        THEN optimized_InvalidInputError("rent_type")
    ELSE IF initial_deposit < 0
        THEN optimized_InvalidInputError("initial_deposit")
    ELSE IF tuition_total < 0
        THEN optimized_InvalidInputError("tuition_total")
    ELSE IF weekly_hours < 0
        THEN optimized_InvalidInputError("weekly_hours_negative")
    ELSE IF weekly_hours > 4000
        THEN optimized_InvalidInputError("weekly_hours_above_40")
    ELSE IF tuition_payment \notin {"lumpSum", "installment"}
        THEN optimized_InvalidInputError("tuition_payment")
    ELSE None

\* _calculate_monthly_income with four weeks to the month
optimized_calculate_monthly_income_4weeks(s) ==
    IF ~s.has_job THEN 0
    ELSE Round2(s.weekly_hours * 400 * AVERAGE_HOURLY_WAGE, 1000)

optimized_calculate_monthly_income(s) ==
    IF ~s.has_job THEN 0
    ELSE Round2(s.weekly_hours * optimized_WEEKS_PER_MONTH * AVERAGE_HOURLY_WAGE, 1000)

optimized_calculate_tuition_monthly(s) ==
    IF s.tuition_payment = "lumpSum" THEN 0
    ELSE IF s.tuition_payment = "installment"
        THEN Round2(s.tuition_total, optimized_TUITION_PAYMENT_MONTHS)
    ELSE 0

\* __init__ once the inputs are validated: the attributes, then the two
\* derived figures computed from them
optimized_init(a) ==
    LET s == [city |-> a.city,
              rent_type |-> a.rent_type,
              has_job |-> a.has_job,
              weekly_hours |-> IF a.has_job THEN a.weekly_hours ELSE 0,
              initial_deposit |-> a.initial_deposit,
              tuition_total |-> a.tuition_total,
              tuition_payment |-> a.tuition_payment,
              monthly_rent |-> Mills(CITY_COSTS[a.city][a.rent_type].rent),
              monthly_living_cost |-> Mills(CITY_COSTS[a.city][a.rent_type].living_cost)]
        t == [k \in DOMAIN s \cup {"monthly_income"} |->
                IF k = "monthly_income" THEN optimized_calculate_monthly_income(s)
                ELSE s[k]]
    IN  [k \in DOMAIN t \cup {"tuition_monthly"} |->
            IF k = "tuition_monthly" THEN optimized_calculate_tuition_monthly(t)
            ELSE t[k]]

optimized_month_names == <<"Sep", "Oct", "Nov", "Dec", "Jan", "Feb",
                           "Mar", "Apr", "May", "Jun", "Jul", "Aug">>

\* one pass of the loop body of calculate_cashflow
optimized_cashflow_iteration(f, s) ==
    LET i == Len(f.months)
        income == s.monthly_income
        base == s.monthly_rent + s.monthly_living_cost
        expense == IF s.tuition_payment = "lumpSum" /\ i = 0
                       THEN base + s.tuition_total
                   ELSE IF s.tuition_payment = "installment" /\ i < optimized_TUITION_PAYMENT_MONTHS
                       THEN base + s.tuition_monthly
                   ELSE base
        cumulative_balance == f.cumulative_balance + income - expense
    IN  [months |-> Append(f.months, optimized_month_names[i + 1]),
         incomes |-> Append(f.incomes, Round2(income, 1)),
         expenses |-> Append(f.expenses, Round2(expense, 1)),
         balances |-> Append(f.balances, Round2(cumulative_balance, 1)),
         cumulative_balance |-> cumulative_balance]

RECURSIVE optimized_cashflow_loop(_, _)
optimized_cashflow_loop(f, s) ==
    IF Len(f.months) = Len(optimized_month_names) THEN f
    ELSE optimized_cashflow_loop(optimized_cashflow_iteration(f, s), s)

\* the columns are named with the euro sign whatever the city
optimized_calculate_cashflow(s) ==
    LET f == optimized_cashflow_loop(
                 [months |-> <<>>, incomes |-> <<>>, expenses |-> <<>>,
                  balances |-> <<>>, cumulative_balance |-> s.initial_deposit], s)
    IN  [month |-> f.months, income |-> f.incomes, expense |-> f.expenses,
         balance |-> f.balances, currency_col |-> "euro sign"]

RECURSIVE optimized_negative_months(_, _)
optimized_negative_months(months, balances) ==
    IF months = <<>> THEN <<>>
    ELSE (IF Head(balances) < 0 THEN <<Head(months)>> ELSE <<>>)
         \o optimized_negative_months(Tail(months), Tail(balances))

optimized_find_critical_months(d) ==
    LET min_balance == CHOOSE m \in Range(d.balance) : \A x \in Range(d.balance) : m <= x
        negative_months == optimized_negative_months(d.month, d.balance)
        critical_months == IF Len(negative_months) > 0 THEN negative_months ELSE <<>>
        need_support == IF min_balance < 0 THEN abs(min_balance) ELSE 0
    IN  [critical_months |-> critical_months, need_support |-> need_support]

optimized_get_summary(s) ==
    LET d == optimized_calculate_cashflow(s)
        f == optimized_find_critical_months(d)
    IN  [monthly_income |-> s.monthly_income,
         monthly_expense_base |-> s.monthly_rent + s.monthly_living_cost,
         tuition_monthly |-> s.tuition_monthly,
         final_balance |-> d.balance[Len(d.balance)],
         min_balance |-> CHOOSE m \in Range(d.balance) : \A x \in Range(d.balance) : m <= x,
         critical_months |-> f.critical_months,
         need_support |-> f.need_support,
         cashflow_df |-> d]

\* StudyCostCalculator(...).get_summary() of calculator_optimized.py on the
\* fields of a that its constructor takes
optimized_buildProjection(a) ==
    LET e == optimized_validate_inputs(a.city, a.rent_type, a.weekly_hours,
                                       a.initial_deposit, a.tuition_total,
                                       a.tuition_payment)
    IN  IF e # None THEN [result |-> None, exc |-> e]
        ELSE [result |-> optimized_get_summary(optimized_init(a)), exc |-> None]

\* Lisbon and Porto at 8.00 an hour, with every numeric field at and beyond
\* its bounds: the two tables agree on the single rooms and differ in the
\* living cost of the shared ones
SharedScenarios ==
    {Scenario("Portugal", ct, rt, job, wh, AVERAGE_HOURLY_WAGE, dep, tui, pay) :
        ct \in {"Lisbon", "Porto"},
        rt \in {"single", "shared"},
        job \in BOOLEAN,
        wh \in {-1, 0, 1500, 4000, 4001},
        dep \in {-1, 0, 6, 2000000},
        tui \in {-1, 0, 48, 7000000},
        pay \in PaymentModes \cup {"monthly"}}

\* a caller of both engines constructs the catalogue engine on a scenario
ConstructShared ==
    /\ pc = "idle"
    /\ topped = None
    /\ answer = None
    /\ \E a \in SharedScenarios : InitValidate(a)
    /\ UNCHANGED <<kept, topped, calls, locals, answer, metering>>

NextVariants ==
    \/ Next
    \/ ConstructShared

SpecVariants == Init /\ [][NextVariants]_vars

\* the scenario names a city and a room that both tables hold with the same
\* rent and the same living cost, and the wage the fixed-table engine assumes
SharedInput ==
    /\ args # None
    /\ args.hourly_wage = AVERAGE_HOURLY_WAGE
    /\ args.city \in DOMAIN CITY_COSTS
    /\ args.rent_type \in DOMAIN CITY_COSTS[args.city]
    /\ get_city_data(args.country, args.city) # None
    /\ get_rent_by_type(args.country, args.city, args.rent_type) # None
    /\ get_rent_by_type(args.country, args.city, args.rent_type).rent
          = CITY_COSTS[args.city][args.rent_type].rent
    /\ get_city_data(args.country, args.city).living_cost
          = CITY_COSTS[args.city][args.rent_type].living_cost

\* the catalogue engine refused the inputs
Rejected == pc = "raised" /\ exc.type = "InvalidInputError"

\* C27: on shared inputs (same rent and living cost, hourlyWage 8.0) the
\* fixed-table engine rejects exactly the inputs the catalogue engine rejects,
\* and on the others produces the same 12 ledger rows, the same criticalMonths
\* and the same needSupport.
C27_EngineVariantsAgree ==
    (pc \in {"returned", "raised"} /\ SharedInput) =>
        LET o == optimized_buildProjection(args) IN
        /\ Rejected <=> o.exc # None
        /\ Returned =>
              /\ o.exc = None
              /\ o.result.cashflow_df.month = Ledger.month
              /\ o.result.cashflow_df.income = Ledger.income
              /\ o.result.cashflow_df.expense = Ledger.expense
              /\ o.result.cashflow_df.balance = Ledger.balance
              /\ o.result.critical_months = result.critical_months
              /\ o.result.need_support = result.need_support

\* a single room in Lisbon on both engines: 519.60 a month against 750 + 700
\* for ten months, in the red from November
C27_Witness ==
    /\ Returned
    /\ SharedInput
    /\ args.city = "Lisbon"
    /\ args.weekly_hours = 1500
    /\ args.has_job
    /\ args.initial_deposit = 2000000
    /\ args.tuition_total = 7000000
    /\ args.tuition_payment = "installment"
    /\ optimized_buildProjection(args).result.cashflow_df.balance[1] = 1069600
    /\ Len(optimized_buildProjection(args).result.critical_months) = 10
    /\ Head(result.critical_months) = "Nov"

\* 40.01 hours a week without a job: refused by both
C27_WitnessRejected ==
    /\ Rejected
    /\ SharedInput
    /\ ~args.has_job
    /\ args.weekly_hours = 4001
    /\ args.initial_deposit = 0
    /\ optimized_buildProjection(args).exc = optimized_InvalidInputError("weekly_hours_above_40")


----------------------------------------------------------------------------
(* subscription.py and database.py: the metering layer.  The table of      *)
(* calculation records that save_calculation also fills is not part of the *)
(* state: nothing in the metering layer reads it.  The database is SQLite, *)
(* the default, which does not enforce the foreign key of usage_stats.     *)

FREE_MONTHLY_LIMIT == 3

\* the ids a caller may pass: the registered accounts and an id of no row
UserIds == RegisteredIds \cup {2}

\* the plans sold by payment.py
Plans == {PRO_MONTHLY, PRO_YEARLY}

\* (now.year, now.month) as one number
Month(t) == t \div DaysPerMonth

\* datetime.isoformat and datetime.fromisoformat: the text stored in the
\* column subscription_expires_at and the time read back from it
isoformat(t) == [iso |-> t]

fromisoformat(text) == text.iso

get_user_by_id(db, user_id) ==
    IF user_id \in DOMAIN db THEN db[user_id] ELSE None

\* UPDATE users SET ... WHERE id = user_id: no row, no change
update_subscription(db, user_id, subscription_type, expires_at) ==
    LET expires_str == IF expires_at # None THEN isoformat(expires_at.time) ELSE None IN
    [id \in DOMAIN db |->
        IF id = user_id
            THEN [subscription_type |-> subscription_type,
                  subscription_expires_at |-> expires_str]
            ELSE db[id]]

get_monthly_usage(stats, t, user_id) ==
    IF <<user_id, Month(t)>> \in DOMAIN stats
        THEN stats[<<user_id, Month(t)>>]
        ELSE 0

\* INSERT INTO usage_stats ... ON CONFLICT DO UPDATE SET calculation_count + 1
save_calculation(stats, t, user_id) ==
    LET row == <<user_id, Month(t)>> IN
    [k \in DOMAIN stats \cup {row} |->
        IF k # row THEN stats[k]
        ELSE IF row \in DOMAIN stats THEN stats[row] + 1
        ELSE 1]

\* get_subscription_type answering free for an expired subscription without
\* the call of update_subscription
get_subscription_type_no_reset(db, t, user_id) ==
    LET user == get_user_by_id(db, user_id) IN
    IF user = None THEN [value |-> FREE, users |-> db]
    ELSE IF /\ user.subscription_expires_at # None
            /\ user.subscription_type # FREE
            /\ t > fromisoformat(user.subscription_expires_at)
        THEN [value |-> FREE, users |-> db]
    ELSE [value |-> user.subscription_type, users |-> db]

\* the value returned and the table users as the call leaves it
get_subscription_type(db, t, user_id) ==
    LET user == get_user_by_id(db, user_id) IN
    IF user = None THEN [value |-> FREE, users |-> db]
    ELSE IF /\ user.subscription_expires_at # None
            /\ user.subscription_type # FREE
            /\ t > fromisoformat(user.subscription_expires_at)
        THEN [value |-> FREE, users |-> update_subscription(db, user_id, FREE, None)]
    ELSE [value |-> user.subscription_type, users |-> db]

is_pro_user(db, t, user_id) ==
    LET subscription == get_subscription_type(db, t, user_id) IN
    [value |-> subscription.value \in {PRO_MONTHLY, PRO_YEARLY},
     users |-> subscription.users]

\* can_calculate refusing only beyond the limit
can_calculate_above_limit(db, stats, t, user_id) ==
    LET subscription == get_subscription_type(db, t, user_id)
        pro == is_pro_user(subscription.users, t, user_id)
        usage == get_monthly_usage(stats, t, user_id)
    IN  IF pro.value THEN [value |-> [allowed |-> TRUE, message |-> ""], users |-> pro.users]
        ELSE IF usage > FREE_MONTHLY_LIMIT
            THEN [value |-> [allowed |-> FALSE, message |-> "limit reached"], users |-> pro.users]
        ELSE [value |-> [allowed |-> TRUE, message |-> "remaining"], users |-> pro.users]

\* the pair returned, with the kind of message, and the table users as the
\* two calls of get_subscription_type leave it
can_calculate(db, stats, t, user_id) ==
    LET subscription == get_subscription_type(db, t, user_id)
        pro == is_pro_user(subscription.users, t, user_id)
        usage == get_monthly_usage(stats, t, user_id)
    IN  IF pro.value THEN [value |-> [allowed |-> TRUE, message |-> ""], users |-> pro.users]
        ELSE IF usage >= FREE_MONTHLY_LIMIT
            THEN [value |-> [allowed |-> FALSE, message |-> "limit reached"], users |-> pro.users]
        ELSE [value |-> [allowed |-> TRUE, message |-> "remaining"], users |-> pro.users]

\* everything outside the metering layer, the answers to its callers apart
Engine == <<GLOBAL_CITY_DATABASE, pc, args, self, frame, df, found, result,
            exc, kept, topped, calls, locals>>

\* a caller calls get_subscription_type(user_id); the answer keeps the row
\* the call read into its local user
GetSubscriptionType(user_id) ==
    /\ LET r == get_subscription_type(users, now, user_id) IN
       /\ users' = r.users
       /\ answer' = [op |-> "get_subscription_type", args |-> <<user_id>>,
                     user |-> get_user_by_id(users, user_id), value |-> r.value]
    /\ UNCHANGED <<usage_stats, now, requests, Engine>>

\* a caller calls upgrade_subscription(user_id, subscription_type, duration_days)
UpgradeSubscription(user_id, subscription_type, duration_days) ==
    /\ LET expires_at == [time |-> now + duration_days] IN
       users' = update_subscription(users, user_id, subscription_type, expires_at)
    /\ UNCHANGED <<usage_stats, now, requests, answer, Engine>>

\* a request calls can_calculate(user_id)
CanCalculate(p, user_id) ==
    /\ requests[p].pc = "idle"
    /\ LET r == can_calculate(users, usage_stats, now, user_id) IN
       /\ users' = r.users
       /\ requests' = [requests EXCEPT ![p] =
              [pc |-> "can_calculate", user_id |-> user_id, value |-> r.value]]
    /\ UNCHANGED <<usage_stats, now, answer, Engine>>

\* the request that was allowed saves its calculation
SaveCalculation(p) ==
    /\ requests[p].pc = "can_calculate"
    /\ requests[p].value.allowed
    /\ get_monthly_usage(usage_stats, now, requests[p].user_id) < MaxCount
    /\ usage_stats' = save_calculation(usage_stats, now, requests[p].user_id)
    /\ requests' = [requests EXCEPT ![p] = IdleRequest]
    /\ UNCHANGED <<users, now, answer, Engine>>

\* the request ends without saving
Return(p) ==
    /\ requests[p].pc # "idle"
    /\ requests' = [requests EXCEPT ![p] = IdleRequest]
    /\ UNCHANGED <<users, usage_stats, now, answer, Engine>>

\* a day passes
Tick ==
    /\ now < MaxTime
    /\ now' = now + 1
    /\ UNCHANGED <<users, usage_stats, requests, answer, Engine>>

Subscribe ==
    \E user_id \in UserIds, subscription_type \in Plans, duration_days \in 1 .. MaxDays :
        UpgradeSubscription(user_id, subscription_type, duration_days)

Ask == \E user_id \in UserIds : GetSubscriptionType(user_id)

Check == \E p \in Requests, user_id \in UserIds : CanCalculate(p, user_id)

Save == \E p \in Requests : SaveCalculation(p)

End == \E p \in Requests : Return(p)

\* the subscription of an account over time
NextSubscription ==
    \/ Subscribe
    \/ Ask
    \/ Tick

SpecSubscription == Init /\ [][NextSubscription]_vars

\* the first request on its own
CheckAlone == \E user_id \in UserIds : CanCalculate(1, user_id)

SaveAlone == SaveCalculation(1)

EndAlone == Return(1)

\* one request at a time metered against the quota while subscriptions come
\* and go
NextMetering ==
    \/ Subscribe
    \/ CheckAlone
    \/ SaveAlone
    \/ EndAlone
    \/ Tick

SpecMetering == Init /\ [][NextMetering]_vars


----------------------------------------------------------------------------
(* Properties of the metering layer *)

\* the subscription in force: the stored type until its expiry has passed,
\* free afterwards and for an id of no row
EffectiveSubscription(user_id) ==
    IF user_id \notin DOMAIN users THEN FREE
    ELSE IF /\ users[user_id].subscription_expires_at # None
            /\ now > users[user_id].subscription_expires_at.iso
        THEN FREE
    ELSE users[user_id].subscription_type

\* the calculations counted for the user in the calendar month of now
CountThisMonth(user_id) ==
    IF \E k \in DOMAIN usage_stats : k = <<user_id, now \div DaysPerMonth>>
        THEN usage_stats[<<user_id, now \div DaysPerMonth>>]
        ELSE 0

\* C28: can_calculate(user) answers allowed for every user whose effective
\* subscription is pro_monthly or pro_yearly, whatever the usage, and for every
\* other user, an id of no row included, exactly when the user's count for the
\* current calendar month is less than 3.
C28_QuotaGate ==
    [][\A p \in Requests, user_id \in UserIds :
          CanCalculate(p, user_id) =>
              (requests'[p].value.allowed <=>
                  \/ EffectiveSubscription(user_id) \in {"pro_monthly", "pro_yearly"}
                  \/ CountThisMonth(user_id) < 3)]_vars

\* a subscriber with three calculations this month is allowed a fourth
C28_Witness ==
    \E p \in Requests :
        /\ requests[p].pc = "can_calculate"
        /\ requests[p].user_id = 1
        /\ requests[p].value.allowed
        /\ EffectiveSubscription(1) = "pro_yearly"
        /\ CountThisMonth(1) = 3

\* an id of no row with three calculations this month is refused
C28_WitnessRefused ==
    \E p \in Requests :
        /\ requests[p].pc = "can_calculate"
        /\ requests[p].user_id = 2
        /\ ~requests[p].value.allowed
        /\ CountThisMonth(2) = 3
        /\ now \div DaysPerMonth = 1


\* the stored subscription of the account is a plan with an expiry
Subscribed(user_id) ==
    /\ users[user_id].subscription_type \in Plans
    /\ users[user_id].subscription_expires_at # None

\* the time the stored expiry names
StoredExpiry(user_id) == users[user_id].subscription_expires_at.iso

\* C29: upgrade_subscription(user, type, days) stores the type with an expiry;
\* get_subscription_type called before the stored expiry answers that type and
\* changes no stored state; called after it, answers free and resets the stored
\* subscription to free with no expiry; a free account stays free until the
\* next upgrade, and before the expiry only an upgrade changes the stored row.
C29_SubscriptionExpiry ==
    [][/\ \A user_id \in RegisteredIds, subscription_type \in Plans, duration_days \in 1 .. MaxDays :
             UpgradeSubscription(user_id, subscription_type, duration_days) =>
                 /\ users'[user_id].subscription_type = subscription_type
                 /\ users'[user_id].subscription_expires_at # None
                 /\ now < users'[user_id].subscription_expires_at.iso
       /\ \A user_id \in RegisteredIds :
             (GetSubscriptionType(user_id) /\ Subscribed(user_id)) =>
                 /\ now < StoredExpiry(user_id) =>
                       /\ answer'.value = users[user_id].subscription_type
                       /\ users' = users
                 /\ now > StoredExpiry(user_id) =>
                       /\ answer'.value = "free"
                       /\ users'[user_id] =
                              [subscription_type |-> "free", subscription_expires_at |-> None]
       /\ \A user_id \in RegisteredIds :
             users'[user_id] # users[user_id] =>
                 \/ \E subscription_type \in Plans, duration_days \in 1 .. MaxDays :
                        UpgradeSubscription(user_id, subscription_type, duration_days)
                 \/ /\ Subscribed(user_id)
                    /\ now > StoredExpiry(user_id)
                    /\ users'[user_id].subscription_type = "free"]_vars

\* a monthly subscription asked about after its expiry: the answer is free and
\* the row is reset
C29_Witness ==
    /\ answer # None
    /\ answer.op = "get_subscription_type"
    /\ answer.args = <<1>>
    /\ answer.user.subscription_type = "pro_monthly"
    /\ answer.user.subscription_expires_at.iso < now
    /\ answer.value = "free"
    /\ users[1] = [subscription_type |-> "free", subscription_expires_at |-> None]

\* a yearly subscription asked about before its expiry: the answer is the
\* plan and the row is as it was
C29_WitnessBeforeExpiry ==
    /\ answer # None
    /\ answer.op = "get_subscription_type"
    /\ answer.args = <<1>>
    /\ answer.user.subscription_type = "pro_yearly"
    /\ now < answer.user.subscription_expires_at.iso
    /\ answer.value = "pro_yearly"
    /\ users[1] = answer.user


\* requests of accounts that never subscribe: each checks, and saves only if
\* it was allowed
NextQuota ==
    \/ Check
    \/ Save
    \/ End
    \/ Tick

SpecQuota == Init /\ [][NextQuota]_vars

\* C30: when every save_calculation of a free user follows a can_calculate of
\* that user that answered allowed, no calculation_count of any user and month
\* exceeds 3, also when the checks and saves of several requests interleave.
C30_QuotaNeverExceeded ==
    \A k \in DOMAIN usage_stats : usage_stats[k] <= 3

\* two requests of account 1 were both allowed at a count of 2 and both saved
C30_Overrun ==
    /\ <<1, 0>> \in DOMAIN usage_stats
    /\ usage_stats[<<1, 0>>] = 4
    /\ users = InitialUsers
    /\ \A p \in Requests : requests[p] = IdleRequest

====
